---- MODULE Spec2Model ----
(***************************************************************************)
(* Verification model of the Malayalam corpus clean-up pipeline.           *)
(*                                                                         *)
(* Text is a sequence of Unicode scalar values (integers).  A file is a    *)
(* sequence of such scalars, one offset unit per scalar.                   *)
(*                                                                         *)
(* Part I   sequence helpers                                               *)
(* Part II  master_cleanup_2: Visarga + dictionary transform, chunk        *)
(*          workers, ordered concatenation (specification SpecChunk)       *)
(* Part III chillu_handling: rigorous_malayalam_normalization              *)
(*          (specification SpecChillu)                                     *)
(* Part IV  master_cleanup_1: normalize_zwj and structural_cleanup         *)
(*          (specification SpecIdem)                                       *)
(* Part V    find_chillu_pairs: the substitution (specification SpecSubst) *)
(* Part VI   the two Visarga resolvers (specification SpecVisarga)         *)
(* Part VII  chillu_extract_optimized and find_chillu_pairs runs           *)
(*           (specification SpecMine)                                      *)
(* Part VIII remove_boilerplate.classify_line (specification SpecBoiler)   *)
(* Part IX   a mapping file that is missing or malformed                   *)
(* Part X    structural_cleanup.py, both structural filters                *)
(*           (specification SpecStruct)                                    *)
(* Part XI    decoding of the input bytes (specification SpecDecode)       *)
(* Part XII   wikipedia_cleaning._clean_line (specification SpecWiki)      *)
(* Part XIII  chunk ranges and line accounting of master_cleanup_2         *)
(* Part XIV   the dictionary normalisers on one line (SpecFrame)           *)
(* Part XV    the four chillu tables (specification SpecResolve)           *)
(* Part XVI   master_cleanup_1.main, buffered write (SpecClean)            *)
(* Part XVII  wikipedia_cleaning.main, streaming loop (SpecWikiMain)       *)
(* Part XVIII the written boilerplate keywords (SpecKeyword)               *)
(***************************************************************************)
EXTENDS Integers, Sequences, FiniteSets, TLC

VARIABLES
    \* ---- master_cleanup_2 run ----
    file,             \* content of the input file
    mappingFile,      \* the mapping path: [isfile, wellformed, json]
    num_workers,      \* args.workers
    chunks,           \* result of _compute_chunks: sequence of [start, end]
    mainpc,           \* position of main()
    tempDir,          \* TRUE while the mkdtemp directory exists
    tempFile,         \* chunk index -> content of chunk_NNNN.txt, or NoFile
    ordered_results,  \* main's list of temp paths (as chunk indices)
    output,           \* content of the output path, or NoFile
    output0,          \* history: content of the output path when main started
    wpc,              \* chunk index -> position of the worker running it
    wmap,             \* chunk index -> _CHILLU_MAP of the process running it
    bufpos,           \* chunk index -> f_in.buffer.tell()
    txtpos,           \* chunk index -> offset of the next scalar f_in.readline() returns
    lines_processed,  \* chunk index -> lines_processed
    processed,        \* history: chunk index -> sequence of [off, line, out]
    outOfOrder,       \* history: a worker returned before one of a lower chunk index
    initRaised,       \* history: _init_worker raised in a pool process
    \* ---- pure normalisation functions ----
    text,             \* input text
    npc,              \* passes of rigorous_malayalam_normalization applied so far
    cpc,              \* passes of normalize_zwj + structural_cleanup applied so far
    normalized,       \* rigorous_malayalam_normalization(text)
    renormalized,     \* rigorous_malayalam_normalization(normalized)
    cleaned,          \* structural_cleanup(normalize_zwj(text))
    recleaned,        \* structural_cleanup(normalize_zwj(cleaned))
    \* ---- functions applied to one text ----
    calls,            \* names of the functions that are to be applied to text
    ret,              \* function name -> value it returned
    valid_words,      \* the validated Visarga-word set given to clean_text
    \* ---- chillu_extract_optimized and find_chillu_pairs runs ----
    epc,              \* position of chillu_extract_optimized.main
    local_words,      \* chunk index -> set returned by _process_chunk
    all_words,        \* main's all_words
    collected,        \* history: chunk indices in the order imap_unordered yielded them
    words_file,       \* content of the extractor's output file, or NoFile
    input_lines,      \* the lines of find_chillu_pairs' input file, as a set
    unique_words,     \* find_chillu_pairs' unique_words
    todo,             \* words the for loop has not visited yet
    visited,          \* history: words in the order the for loop visited them
    pairs,            \* find_chillu_pairs' pairs
    minepc,           \* position of find_chillu_pairs
    pairs_file,       \* content of the pairs JSON file, or NoFile
    \* ---- the buffered write loops of master_cleanup_1 and wikipedia_cleaning ----
    streampc,         \* position of the main() that runs the loop
    stream,           \* what the for loop iterates over, in order
    consumed,         \* i: number of items the loop has taken
    write_buf,        \* write_buf
    f_out,            \* what has been written to f_out so far
    kept_docs,        \* kept_docs
    dropped_docs,     \* dropped_docs
    prev_was_blank,   \* prev_was_blank
    stats,            \* stats
    appended          \* history: every entry appended to write_buf, in order

chunkVars == <<file, mappingFile, num_workers, chunks, mainpc, tempDir, tempFile,
               ordered_results, output, output0, wpc, wmap, bufpos,
               txtpos, lines_processed, processed, outOfOrder, initRaised>>
normVars == <<text, npc, cpc, normalized, renormalized, cleaned, recleaned>>
funVars == <<calls, ret, valid_words>>
mineVars == <<epc, local_words, all_words, collected, words_file, input_lines,
              unique_words, todo, visited, pairs, minepc, pairs_file>>
streamVars == <<streampc, stream, consumed, write_buf, f_out, kept_docs, dropped_docs,
                prev_was_blank, stats, appended>>
auxVars == <<funVars, mineVars, streamVars>>
vars == <<chunkVars, normVars, auxVars>>

(***************************************************************************)
(* Part I: helpers                                                         *)
(***************************************************************************)
\* content of a path that is no file (no scalar is negative)
NoFile == <<-1>>

Min(a, b) == IF a <= b THEN a ELSE b

\* all sequences over S of length 0..n
SeqsUpTo(S, n) == UNION {[1..k -> S] : k \in 0..n}

RECURSIVE Flatten(_)
Flatten(ss) == IF ss = <<>> THEN <<>> ELSE Head(ss) \o Flatten(Tail(ss))

\* text[a..b] with Python slice semantics on 1-based inclusive indices
Slice(s, a, b) == IF a > b THEN <<>> ELSE SubSeq(s, a, b)

\* index of the first element of s at index >= i that is in S, or 0
RECURSIVE FirstIn(_, _, _)
FirstIn(s, i, S) ==
    IF i > Len(s) THEN 0
    ELSE IF s[i] \in S THEN i
    ELSE FirstIn(s, i + 1, S)

\* number of leading elements of s that are in S   (str.lstrip)
RECURSIVE LeadCount(_, _)
LeadCount(s, S) ==
    IF s = <<>> \/ Head(s) \notin S THEN 0 ELSE 1 + LeadCount(Tail(s), S)

\* number of trailing elements of s that are in S  (str.rstrip)
RECURSIVE TrailCount(_, _)
TrailCount(s, S) ==
    IF s = <<>> \/ s[Len(s)] \notin S THEN 0
    ELSE 1 + TrailCount(SubSeq(s, 1, Len(s) - 1), S)

lstrip(s, S) == Slice(s, LeadCount(s, S) + 1, Len(s))
rstrip(s, S) == Slice(s, 1, Len(s) - TrailCount(s, S))

(***************************************************************************)
(* Part II: master_cleanup_2                                               *)
(***************************************************************************)
NL      == 10      \* '\n'
CR      == 13      \* '\r'
SPACE   == 32      \* ' '
COLON   == 58      \* ':'
VISARGA == 3331    \* U+0D03

\* characters matched by \s in a str pattern, and split on by str.split()
Whitespace == {9, 10, 11, 12, 13, 28, 29, 30, 31, 32, 133, 160, 5760,
               8232, 8233, 8239, 8287, 12288} \cup (8192..8202)

\* string.punctuation + U+2018 U+2019 U+201C U+201D
_PUNCTUATION == (33..47) \cup (58..64) \cup (91..96) \cup (123..126)
                \cup {8216, 8217, 8220, 8221}

\* _RE_VISARGA = VISARGA(?=\s|$): a Visarga followed by whitespace or at the end
RECURSIVE VisargaSub(_, _)
VisargaSub(s, i) ==
    IF i > Len(s) THEN <<>>
    ELSE LET hit == /\ s[i] = VISARGA
                    /\ (i = Len(s) \/ s[i + 1] \in Whitespace)
         IN  <<IF hit THEN COLON ELSE s[i]>> \o VisargaSub(s, i + 1)

clean_visarga(s) == VisargaSub(s, 1)

\* str.split(): the maximal runs of non-whitespace characters
RECURSIVE SplitFrom(_, _, _)
SplitFrom(s, i, cur) ==
    IF i > Len(s) THEN (IF cur = <<>> THEN <<>> ELSE <<cur>>)
    ELSE IF s[i] \in Whitespace
         THEN (IF cur = <<>> THEN <<>> ELSE <<cur>>) \o SplitFrom(s, i + 1, <<>>)
         ELSE SplitFrom(s, i + 1, Append(cur, s[i]))

split(s) == SplitFrom(s, 1, <<>>)

\* ' '.join(words)
RECURSIVE join(_)
join(words) ==
    IF words = <<>> THEN <<>>
    ELSE IF Len(words) = 1 THEN words[1]
    ELSE words[1] \o <<SPACE>> \o join(Tail(words))

_normalize_word(mapping, raw_word) ==
    LET l_stripped     == lstrip(raw_word, _PUNCTUATION)
        leading_punct  == Slice(raw_word, 1, Len(raw_word) - Len(l_stripped))
        core_word      == rstrip(l_stripped, _PUNCTUATION)
        trailing_punct == Slice(l_stripped, Len(core_word) + 1, Len(l_stripped))
    IN  IF core_word \in DOMAIN mapping
        THEN leading_punct \o mapping[core_word] \o trailing_punct
        ELSE raw_word

_normalize_chillu_line(mapping, line) ==
    IF DOMAIN mapping = {} THEN line
    ELSE LET words == split(line)
         IN  IF words = <<>> THEN line
             ELSE join([k \in 1..Len(words) |-> _normalize_word(mapping, words[k])])

\* one worker-loop body (lines 143-149): the text written for `line`, and the
\* per-process globals afterwards (neither function assigns _CHILLU_MAP)
ProcessLineMut(mapping, line) ==
    LET t == rstrip(line, {NL, CR})
        c == clean_visarga(t)
        used == {w \in DOMAIN mapping : \E k \in 1..Len(split(c)) :
                    rstrip(lstrip(split(c)[k], _PUNCTUATION), _PUNCTUATION) = w}
    IN  [text |-> _normalize_chillu_line(mapping, c) \o <<NL>>,
         map  |-> [w \in (DOMAIN mapping) \ used |-> mapping[w]]]

ProcessLine(mapping, line) ==
    LET t == rstrip(line, {NL, CR})
    IN  [text |-> _normalize_chillu_line(mapping, clean_visarga(t)) \o <<NL>>,
         map  |-> mapping]

\* _init_worker: the mapping loaded from the file, {} when it is no file
EmptyMap == [w \in {} |-> <<>>]
LoadMapping(mf) == IF mf.isfile THEN mf.json ELSE EmptyMap
\* json.load(f) raises json.JSONDecodeError: nothing in _init_worker catches it
JsonLoadRaises(mf) == mf.isfile /\ ~mf.wellformed

\* _compute_chunks: byte ranges [start, end) for chunk indices 0..num_chunks-1
RECURSIVE ComputeLoop(_, _, _, _, _)
ComputeLoop(i, start, num_chunks, chunk_size, file_size) ==
    IF i >= num_chunks THEN <<>>
    ELSE LET end == IF i < num_chunks - 1 THEN start + chunk_size ELSE file_size
         IN  <<[start |-> start, end |-> end]>>
             \o ComputeLoop(i + 1, end, num_chunks, chunk_size, file_size)

\* num_chunks ranges of chunk_size bytes each, the last one not extended
_compute_chunks_equal(file_size, num_chunks) ==
    [k \in 1..num_chunks |->
        [start |-> (k - 1) * (file_size \div num_chunks),
         end   |-> k * (file_size \div num_chunks)]]

_compute_chunks(file_size, num_chunks) ==
    ComputeLoop(0, 0, num_chunks, file_size \div num_chunks, file_size)

\* chunk i of the list (0-based, as in the code)
Chunk(i) == chunks[i + 1]

\* f_in.buffer.readline() at byte offset pos: the offset after the next '\n'
\* at or after pos, or end of file
BufferReadline(f, pos) ==
    LET j == FirstIn(f, pos + 1, {NL})
    IN  IF j = 0 THEN Len(f) ELSE j

\* lines 128-132: position of the byte buffer when the loop starts
SeekStartMut(f, start) == start

SeekStart(f, start) == IF start > 0 THEN BufferReadline(f, start) ELSE 0

\* f_in.readline() of the text layer whose next undelivered scalar is at
\* offset t: through the next '\n', or the rest of the file
TextReadline(f, t) ==
    LET j == FirstIn(f, t + 1, {NL})
    IN  Slice(f, t + 1, IF j = 0 THEN Len(f) ELSE j)

\* Offsets f_in.buffer.tell() can show after that readline.  The text layer
\* fills its decode buffer with buffer.read1(chunk) calls until it holds a
\* line end (or end of file); each call returns at least one and at most
\* ReadChunk bytes, so the byte buffer runs ahead of the delivered text.
ReadChunk == 3
TellAfterReadline(f, t, pos) ==
    LET j == FirstIn(f, t + 1, {NL})
    IN  IF j = 0 THEN {Len(f)}
        ELSE IF j <= pos THEN {pos}
        ELSE j .. Min(Len(f), j - 1 + ReadChunk)

(***************************************************************************)
(* The run of master_cleanup_2.main: bounded inputs                        *)
(***************************************************************************)
MaxFileLen == 4
MaxWorkers == 2
\* '\n', 'a' (a word the mapping rewrites to 'b') and the Visarga
FileAlphabet == {NL, 97, VISARGA}
Files == SeqsUpTo(FileAlphabet, MaxFileLen)
OldOutput == <<98>>
MappingFiles == {[isfile |-> FALSE, wellformed |-> FALSE, json |-> EmptyMap],
                 [isfile |-> TRUE,  wellformed |-> FALSE, json |-> EmptyMap],
                 [isfile |-> TRUE,  wellformed |-> TRUE,  json |-> (<<97>> :> <<98>>)]}

Idx == 0 .. (num_workers - 1)

InitNormIdle ==
    /\ text = <<>> /\ npc = "idle" /\ cpc = "idle"
    /\ normalized = <<>> /\ renormalized = <<>>
    /\ cleaned = <<>> /\ recleaned = <<>>

NoReturn == [f \in {} |-> <<>>]
InitFunIdle ==
    /\ calls = {} /\ ret = NoReturn /\ valid_words = {}

InitStreamIdle ==
    /\ streampc = "idle" /\ stream = <<>> /\ consumed = 0
    /\ write_buf = <<>> /\ f_out = <<>>
    /\ kept_docs = 0 /\ dropped_docs = 0
    /\ prev_was_blank = FALSE /\ stats = <<>> /\ appended = <<>>

InitMineIdle ==
    /\ epc = "idle" /\ local_words = <<>> /\ all_words = {}
    /\ collected = <<>> /\ words_file = NoFile
    /\ input_lines = {} /\ unique_words = {} /\ todo = {}
    /\ visited = <<>> /\ pairs = EmptyMap
    /\ minepc = "idle" /\ pairs_file = NoFile

InitChunk ==
    /\ file \in Files
    /\ mappingFile \in MappingFiles
    /\ num_workers \in 1..MaxWorkers
    /\ output \in {NoFile, OldOutput}
    /\ output0 = output
    /\ chunks = <<>>
    /\ mainpc = "start"
    /\ tempDir = FALSE
    /\ tempFile = [i \in Idx |-> NoFile]
    /\ ordered_results = <<>>
    /\ wpc = [i \in Idx |-> "idle"]
    /\ wmap = [i \in Idx |-> EmptyMap]
    /\ bufpos = [i \in Idx |-> 0]
    /\ txtpos = [i \in Idx |-> 0]
    /\ lines_processed = [i \in Idx |-> 0]
    /\ processed = [i \in Idx |-> <<>>]
    /\ outOfOrder = FALSE
    /\ initRaised = FALSE
    /\ InitNormIdle
    /\ InitFunIdle
    /\ InitStreamIdle
    /\ InitMineIdle

\* main, lines 238-258: mkdtemp, _compute_chunks, the pool is created and the
\* chunk tasks are queued
MainStart ==
    /\ mainpc = "start"
    /\ tempDir' = TRUE
    /\ chunks' = _compute_chunks(Len(file), num_workers)
    /\ wpc' = [i \in Idx |-> "queued"]
    /\ mainpc' = "collect"
    /\ UNCHANGED <<file, mappingFile, num_workers, tempFile, ordered_results,
                   output, wmap, bufpos, txtpos, lines_processed, processed,
                   outOfOrder, output0, initRaised,
                   normVars, auxVars>>

\* a pool process runs _init_worker and enters _process_chunk_to_file for
\* chunk i: both files are opened, the byte buffer is positioned (lines 119-132)
WorkerStart(i) ==
    /\ wpc[i] = "queued"
    /\ ~JsonLoadRaises(mappingFile)
    /\ wmap' = [wmap EXCEPT ![i] = LoadMapping(mappingFile)]
    /\ tempFile' = [tempFile EXCEPT ![i] = <<>>]
    /\ bufpos' = [bufpos EXCEPT ![i] = SeekStart(file, Chunk(i).start)]
    /\ txtpos' = [txtpos EXCEPT ![i] = SeekStart(file, Chunk(i).start)]
    /\ lines_processed' = [lines_processed EXCEPT ![i] = 0]
    /\ wpc' = [wpc EXCEPT ![i] = "loop"]
    /\ UNCHANGED <<file, mappingFile, num_workers, chunks, mainpc, tempDir,
                   ordered_results, output, processed, outOfOrder, output0, initRaised,
                   normVars, auxVars>>

\* _init_worker raises in a pool process (json.load on a malformed mapping
\* file): the process ends, the pool starts another one in its place, which
\* runs _init_worker again; no pool process ever takes a task
WorkerInitRaise ==
    /\ mainpc = "collect"
    /\ \E i \in Idx : wpc[i] = "queued"
    /\ JsonLoadRaises(mappingFile)
    /\ initRaised' = TRUE
    /\ UNCHANGED <<file, mappingFile, num_workers, chunks, mainpc, tempDir,
                   tempFile, ordered_results, output, wpc, wmap, bufpos, txtpos,
                   lines_processed, processed, outOfOrder, output0,
                   normVars, auxVars>>

\* one iteration of the while loop that processes a line (lines 134-149)
WorkerLine(i) ==
    /\ wpc[i] = "loop"
    /\ bufpos[i] < Chunk(i).end
    /\ LET line == TextReadline(file, txtpos[i])
           res  == ProcessLine(wmap[i], line)
       IN  /\ line # <<>>
           /\ \E p \in TellAfterReadline(file, txtpos[i], bufpos[i]) :
                  bufpos' = [bufpos EXCEPT ![i] = p]
           /\ txtpos' = [txtpos EXCEPT ![i] = @ + Len(line)]
           /\ tempFile' = [tempFile EXCEPT ![i] = @ \o res.text]
           /\ wmap' = [wmap EXCEPT ![i] = res.map]
           /\ lines_processed' = [lines_processed EXCEPT ![i] = @ + 1]
           /\ processed' = [processed EXCEPT ![i] =
                  Append(@, [off |-> txtpos[i], line |-> line, out |-> res.text])]
    /\ UNCHANGED <<file, mappingFile, num_workers, chunks, mainpc, tempDir,
                   ordered_results, output, wpc, outOfOrder, output0, initRaised,
                   normVars, auxVars>>

\* the loop ends (pos >= end, or readline returned ''), the files are closed
\* and (temp_path, lines_processed) is returned (lines 136-141, 151)
WorkerReturn(i) ==
    /\ wpc[i] = "loop"
    /\ \/ bufpos[i] >= Chunk(i).end
       \/ TextReadline(file, txtpos[i]) = <<>>
    /\ wpc' = [wpc EXCEPT ![i] = "done"]
    /\ outOfOrder' = (outOfOrder \/ \E k \in Idx : k < i /\ wpc[k] # "done")
    /\ UNCHANGED <<file, mappingFile, num_workers, chunks, mainpc, tempDir,
                   tempFile, ordered_results, output, wmap, bufpos, txtpos,
                   lines_processed, processed, output0, initRaised,
                   normVars, auxVars>>

\* an I/O error inside the worker: the task ends with an exception
WorkerRaise(i) ==
    /\ wpc[i] = "loop"
    /\ wpc' = [wpc EXCEPT ![i] = "raised"]
    /\ UNCHANGED <<file, mappingFile, num_workers, chunks, mainpc, tempDir,
                   tempFile, ordered_results, output, wmap, bufpos, txtpos,
                   lines_processed, processed, outOfOrder, output0, initRaised,
                   normVars, auxVars>>

\* pool.imap yields the results in task order: the next one is that of chunk
\* len(ordered_results), once its worker has ended
ImapNextMut(results, pcs) == {i \in DOMAIN pcs : pcs[i] \in {"done", "raised"}
                                 /\ \A k \in 1..Len(results) : results[k] # i}

ImapNext(results, pcs) ==
    {i \in DOMAIN pcs : i = Len(results) /\ pcs[i] \in {"done", "raised"}}

\* what the for loop does with the outcome of a task that raised: the
\* exception leaves the loop
TaskFailedMut(pcw) == FALSE

TaskFailed(pcw) == pcw = "raised"

\* for i, (temp_path, lines_done) in enumerate(pool.imap(...)) (lines 259-262)
MainCollect ==
    /\ mainpc = "collect"
    /\ \E i \in ImapNext(ordered_results, wpc) :
          /\ ~TaskFailed(wpc[i])
          /\ ordered_results' = Append(ordered_results, i)
    /\ UNCHANGED <<file, mappingFile, num_workers, chunks, mainpc, tempDir,
                   tempFile, output, wpc, wmap, bufpos, txtpos, lines_processed,
                   processed, outOfOrder, output0, initRaised,
                   normVars, auxVars>>

\* the exception of a failed task is re-raised by imap inside the with block:
\* Pool.__exit__ terminates the pool, control goes to the finally clause
MainRaise ==
    /\ mainpc = "collect"
    /\ \E i \in ImapNext(ordered_results, wpc) : TaskFailed(wpc[i])
    /\ wpc' = [i \in Idx |-> IF wpc[i] \in {"done", "raised"} THEN wpc[i]
                             ELSE "killed"]
    /\ mainpc' = "finally_err"
    /\ UNCHANGED <<file, mappingFile, num_workers, chunks, tempDir, tempFile,
                   ordered_results, output, wmap, bufpos, txtpos,
                   lines_processed, processed, outOfOrder, output0, initRaised,
                   normVars, auxVars>>

\* _concatenate_files(temp_paths, output_file) (lines 158-163)
RECURSIVE _concatenate_files(_, _)
_concatenate_files(temp_paths, files) ==
    IF temp_paths = <<>> THEN <<>>
    ELSE files[Head(temp_paths)] \o _concatenate_files(Tail(temp_paths), files)

\* the for loop is exhausted; _concatenate_files writes the output (line 279)
MainConcatenate ==
    /\ mainpc = "collect"
    /\ Len(ordered_results) = num_workers
    /\ output' = _concatenate_files(ordered_results, tempFile)
    /\ mainpc' = "finally_ok"
    /\ UNCHANGED <<file, mappingFile, num_workers, chunks, tempDir, tempFile,
                   ordered_results, wpc, wmap, bufpos, txtpos, lines_processed,
                   processed, outOfOrder, output0, initRaised,
                   normVars, auxVars>>

\* finally: shutil.rmtree(temp_dir) (lines 283-286); the exception, if any,
\* then leaves main
MainCleanup ==
    /\ mainpc \in {"finally_ok", "finally_err"}
    /\ tempDir' = FALSE
    /\ tempFile' = [i \in Idx |-> NoFile]
    /\ mainpc' = IF mainpc = "finally_ok" THEN "done" ELSE "failed"
    /\ UNCHANGED <<file, mappingFile, num_workers, chunks, ordered_results,
                   output, wpc, wmap, bufpos, txtpos, lines_processed,
                   processed, outOfOrder, output0, initRaised,
                   normVars, auxVars>>

NextChunk ==
    \/ MainStart
    \/ WorkerInitRaise
    \/ \E i \in Idx : WorkerStart(i)
    \/ \E i \in Idx : WorkerLine(i)
    \/ \E i \in Idx : WorkerReturn(i)
    \/ \E i \in Idx : WorkerRaise(i)
    \/ MainCollect
    \/ MainRaise
    \/ MainConcatenate
    \/ MainCleanup

SpecChunk == InitChunk /\ [][NextChunk]_vars

(***************************************************************************)
(* Claims about the chunked run                                            *)
(***************************************************************************)
\* single-threaded reference: every line of the file, first to last
RECURSIVE SequentialFrom(_, _, _)
SequentialFrom(f, t, mapping) ==
    LET line == TextReadline(f, t)
    IN  IF line = <<>> THEN <<>>
        ELSE ProcessLine(mapping, line).text
             \o SequentialFrom(f, t + Len(line), mapping)

SequentialOutput == SequentialFrom(file, 0, LoadMapping(mappingFile))

\* offsets at which a line of the file starts
LineStarts(f) == {o \in 0..(Len(f) - 1) : o = 0 \/ f[o] = NL}

\* the records of all chunks, in ascending chunk index
AllProcessed == Flatten([k \in 1..num_workers |-> processed[k - 1]])

\* C1: the output of the run is byte-identical to transforming every line of
\* the file sequentially, for every file and every worker count
C1_OutputEqualsSequential ==
    mainpc \in {"finally_ok", "done"} => output = SequentialOutput

\* C2: no input line is split across the outputs of two chunks and no line is
\* processed by more than one worker: every unit a worker processes starts
\* at a line start of the file and is that whole line, each temp file holds
\* exactly the outputs of its worker's lines, and no line start is taken twice
C2_NoSplitNoDuplicate ==
    LET ap == AllProcessed
    IN  /\ \A k \in 1..Len(ap) :
              /\ ap[k].off \in 0..(Len(file) - 1)
              /\ (ap[k].off = 0 \/ file[ap[k].off] = NL)
              /\ ap[k].line = TextReadline(file, ap[k].off)
        /\ \A i \in Idx : tempFile[i] # NoFile =>
              tempFile[i] = Flatten([k \in 1..Len(processed[i]) |-> processed[i][k].out])
        /\ \A a, b \in 1..Len(ap) : a # b => ap[a].off # ap[b].off

\* a chunk that starts inside a line has discarded the rest of that line and
\* processed a later line, while chunk 0 processed a line too
C2_Witness ==
    /\ mainpc = "collect"
    /\ \E i \in Idx : /\ Chunk(i).start > 0
                      /\ Chunk(i).start \notin LineStarts(file)
                      /\ Len(processed[i]) > 0
                      /\ Len(processed[0]) > 0

\* C3: the output is the concatenation of the temp files in ascending chunk
\* index whatever order the workers finish in, so the lines of the output
\* are in input order
C3_OrderedConcatenation ==
    mainpc = "finally_ok" =>
       LET ap == AllProcessed
       IN  /\ ordered_results = [k \in 1..num_workers |-> k - 1]
           /\ output = Flatten([k \in 1..num_workers |-> tempFile[k - 1]])
           /\ output = Flatten([k \in 1..Len(ap) |-> ap[k].out])
           /\ \A a, b \in 1..Len(ap) : a < b => ap[a].off < ap[b].off

\* a higher chunk finished first and both chunks contributed lines
C3_Witness ==
    /\ mainpc = "finally_ok"
    /\ outOfOrder
    /\ \E i, j \in Idx : i # j /\ Len(processed[i]) > 0 /\ Len(processed[j]) > 0

\* C4: once a worker has raised, the run never concatenates: the output path
\* keeps the content it had before the run, the run ends failed, and the
\* temp directory with every chunk file is removed
C4_FailureIsAllOrNothing ==
    /\ (\E i \in Idx : wpc[i] = "raised") =>
          /\ output = output0
          /\ mainpc \in {"collect", "finally_err", "failed"}
    /\ mainpc = "failed" =>
          /\ \E i \in Idx : wpc[i] = "raised"
          /\ ~tempDir
          /\ \A i \in Idx : tempFile[i] = NoFile

\* a run that failed after one worker had returned a complete file and another
\* was still writing a partial one
C4_Witness ==
    /\ mainpc = "failed"
    /\ \E i, j \in Idx : /\ wpc[i] = "done" /\ Len(processed[i]) > 0
                         /\ wpc[j] \in {"raised", "killed"}
                         /\ Len(processed[j]) > 0

\* C5: the text written for a line depends only on the line's content and the
\* loaded mapping: two lines with the same content get the same output in
\* whatever chunk and after whatever lines, and no worker's mapping differs
\* from the loaded one
C5_OutputDependsOnLineOnly ==
    LET ap      == AllProcessed
        content == [k \in 1..Len(ap) |-> rstrip(ap[k].line, {NL, CR})]
    IN  /\ \A a, b \in 1..Len(ap) :
              content[a] = content[b] => ap[a].out = ap[b].out
        /\ \A i \in Idx :
              (wpc[i] \in {"loop", "done", "raised"} \/ processed[i] # <<>>)
                 => wmap[i] = LoadMapping(mappingFile)

\* the same mapped word was processed by two workers, by one of them after
\* another line
C5_Witness ==
    /\ mappingFile.isfile
    /\ \E i, j \in Idx :
          /\ i # j
          /\ Len(processed[i]) >= 2
          /\ Len(processed[j]) >= 1
          /\ rstrip(processed[i][2].line, {NL, CR}) = <<97>>
          /\ rstrip(processed[j][1].line, {NL, CR}) = <<97>>
          /\ processed[i][2].out = <<98, NL>>

(***************************************************************************)
(* Part III: chillu_handling.rigorous_malayalam_normalization              *)
(***************************************************************************)
KA     == 3349    \* U+0D15
NNA    == 3363    \* U+0D23
NA     == 3368    \* U+0D28
RA     == 3376    \* U+0D30
LA     == 3378    \* U+0D32
LLA    == 3379    \* U+0D33
HA     == 3385    \* U+0D39
virama == 3405    \* U+0D4D
zwj    == 8205    \* U+200D
zwnj   == 8204    \* U+200C
CHILLU_NN == 3450 \* U+0D7A
CHILLU_N  == 3451 \* U+0D7B
CHILLU_RR == 3452 \* U+0D7C
CHILLU_L  == 3453 \* U+0D7D
CHILLU_LL == 3454 \* U+0D7E
CHILLU_K  == 3455 \* U+0D7F

\* chillu_map of chillu_handling.py, as written there
chillu_map == (NNA :> CHILLU_LL) @@ (NA :> CHILLU_N) @@ (RA :> CHILLU_RR)
              @@ (LA :> CHILLU_L) @@ (LLA :> CHILLU_NN)

\* malayalam_consonants = ക-ഹ
malayalam_consonants == KA .. HA

\* the character class that opens `pattern`
PatternBases == {NNA, NA, RA, LA, LLA, KA}

\* chillu_map.get(base, base + virama)
ChilluOrPair(base) ==
    IF base \in DOMAIN chillu_map THEN <<chillu_map[base]>> ELSE <<base, virama>>

\* replace_callback(match): suffix is group 2, lookahead is group 3 ('' at
\* the end of the text)
replace_callback_zwnj_chillu(base, suffix, lookahead) ==
    IF \E k \in 1..Len(suffix) : suffix[k] \in {zwj, zwnj} THEN ChilluOrPair(base)
    ELSE IF lookahead # <<>> /\ lookahead[1] \in malayalam_consonants
         THEN <<base, virama>>
         ELSE ChilluOrPair(base)

replace_callback(base, suffix, lookahead) ==
    IF \E k \in 1..Len(suffix) : suffix[k] = zwnj THEN <<base, virama>>
    ELSE IF \E k \in 1..Len(suffix) : suffix[k] = zwj THEN ChilluOrPair(base)
    ELSE IF lookahead # <<>> /\ lookahead[1] \in malayalam_consonants
         THEN <<base, virama>>
         ELSE ChilluOrPair(base)

\* pattern = ([bases])(virama[zwj zwnj]?)(.|$) tried at index i: the length of
\* group 2 when it matches there, else 0.  The optional joiner is greedy and
\* group 3 can always match after it, so there is no backtracking.
SuffixLenAt(s, i) ==
    IF i + 1 <= Len(s) /\ s[i] \in PatternBases /\ s[i + 1] = virama
    THEN (IF i + 2 <= Len(s) /\ s[i + 2] \in {zwj, zwnj} THEN 2 ELSE 1)
    ELSE 0

\* re.sub(pattern, lambda m: replace_callback(m) + (group 3 unless joiner), text)
\* as one segment of output per input scalar: the replacement is put at the
\* base, group 2 gives nothing, group 3 is consumed by the match and re-emitted
RECURSIVE SubSegments(_, _)
SubSegments(s, i) ==
    IF i > Len(s) THEN <<>>
    ELSE LET n == SuffixLenAt(s, i)
         IN  IF n = 0 THEN <<<<s[i]>>>> \o SubSegments(s, i + 1)
             ELSE LET g3   == i + n + 1
                      look == IF g3 <= Len(s) THEN <<s[g3]>> ELSE <<>>
                      repl == replace_callback(s[i], SubSeq(s, i + 1, i + n), look)
                      keep == IF look # <<>> /\ look[1] \notin {zwj, zwnj}
                              THEN look ELSE <<>>
                  IN  <<repl>> \o [k \in 1..n |-> <<>>]
                      \o (IF g3 <= Len(s) THEN <<keep>> ELSE <<>>)
                      \o SubSegments(s, g3 + 1)

\* .replace(zwj, "").replace(zwnj, "")
NotJoiner(c) == c \notin {zwj, zwnj}
StripJoiners(s) == SelectSeq(s, NotJoiner)

\* the output of rigorous_malayalam_normalization, one segment per input scalar
NormalizationSegments(s) ==
    LET segs == SubSegments(s, 1)
    IN  [k \in 1..Len(segs) |-> StripJoiners(segs[k])]

rigorous_malayalam_normalization(s) == Flatten(NormalizationSegments(s))

(***************************************************************************)
(* The normalisation functions applied to bounded texts                    *)
(***************************************************************************)
MaxChilluLen == 5
ChilluAlphabet == {NA, RA, KA, virama, zwj, zwnj, SPACE}
ChilluTexts == SeqsUpTo(ChilluAlphabet, MaxChilluLen)

InitChunkIdle ==
    /\ file = <<>>
    /\ mappingFile = [isfile |-> FALSE, wellformed |-> FALSE, json |-> EmptyMap]
    /\ num_workers = 1
    /\ output = NoFile /\ output0 = NoFile
    /\ chunks = <<>>
    /\ mainpc = "idle"
    /\ tempDir = FALSE
    /\ tempFile = [i \in Idx |-> NoFile]
    /\ ordered_results = <<>>
    /\ wpc = [i \in Idx |-> "idle"]
    /\ wmap = [i \in Idx |-> EmptyMap]
    /\ bufpos = [i \in Idx |-> 0]
    /\ txtpos = [i \in Idx |-> 0]
    /\ lines_processed = [i \in Idx |-> 0]
    /\ processed = [i \in Idx |-> <<>>]
    /\ outOfOrder = FALSE
    /\ initRaised = FALSE

InitTexts(T) ==
    /\ text \in T
    /\ npc = "ready" /\ cpc = "ready"
    /\ normalized = <<>> /\ renormalized = <<>>
    /\ cleaned = <<>> /\ recleaned = <<>>
    /\ InitChunkIdle
    /\ InitFunIdle
    /\ InitStreamIdle
    /\ InitMineIdle

\* cleaned_data = rigorous_malayalam_normalization(content)
Normalize ==
    /\ npc = "ready"
    /\ normalized' = rigorous_malayalam_normalization(text)
    /\ npc' = "once"
    /\ UNCHANGED <<chunkVars, auxVars, text, cpc, renormalized, cleaned, recleaned>>

\* the function applied to its own output
Renormalize ==
    /\ npc = "once"
    /\ renormalized' = rigorous_malayalam_normalization(normalized)
    /\ npc' = "twice"
    /\ UNCHANGED <<chunkVars, auxVars, text, cpc, normalized, cleaned, recleaned>>

InitChillu == InitTexts(ChilluTexts)
NextChillu == Normalize \/ Renormalize
SpecChillu == InitChillu /\ [][NextChillu]_vars

(***************************************************************************)
(* Claims about rigorous_malayalam_normalization                           *)
(***************************************************************************)
FiveBases == {NNA, NA, RA, LA, LLA}
AtomicChillus == CHILLU_NN .. CHILLU_K
Segs == NormalizationSegments(text)
Normalized == npc \in {"once", "twice"}

\* what the output holds for input positions a..b
Out(a, b) == Flatten([k \in 1..(b - a + 1) |-> Segs[a + k - 1]])

\* the scalar at input position j is kept: it is emitted as it is, or it is
\* the base of a later sequence and emitted as that sequence's resolution
Kept(j) ==
    /\ Segs[j] # <<>>
    /\ \/ Head(Segs[j]) = text[j]
       \/ text[j] \in FiveBases /\ Segs[j] = <<chillu_map[text[j]]>>

JoinerSeqAt(i, j) ==
    /\ i + 2 <= Len(text)
    /\ text[i] \in FiveBases /\ text[i + 1] = virama /\ text[i + 2] = j

BarePairAt(i) ==
    /\ i + 1 <= Len(text)
    /\ text[i] \in FiveBases /\ text[i + 1] = virama
    /\ (i + 2 <= Len(text) => text[i + 2] \notin {zwj, zwnj})

\* C7: every base consonant + virama + joiner of the input is replaced by a
\* single atomic chillu scalar, whatever precedes or follows it
C7_JoinerAlwaysChillu ==
    Normalized =>
       /\ normalized = Out(1, Len(text))
       /\ \A i \in 1..Len(text) : JoinerSeqAt(i, zwj) =>
             /\ Len(Out(i, i + 2)) = 1
             /\ Out(i, i + 2)[1] \in AtomicChillus

\* C8: every bare base consonant + virama at the end of the input or before
\* whitespace or punctuation becomes the atomic chillu, whatever precedes it
C8_FinalPairAlwaysChillu ==
    Normalized =>
       \A i \in 1..Len(text) :
          (/\ BarePairAt(i)
           /\ (i + 1 = Len(text) \/ text[i + 2] \in Whitespace \cup _PUNCTUATION))
          => /\ Len(Out(i, i + 1)) = 1
             /\ Out(i, i + 1)[1] \in AtomicChillus

C10_LookaheadRule ==
    Normalized =>
       \A i \in 1..Len(text) :
          (BarePairAt(i) /\ i + 2 <= Len(text)) =>
             IF text[i + 2] \in malayalam_consonants
             THEN Out(i, i + 1) = <<text[i], virama>> /\ Kept(i + 2)
             ELSE /\ Len(Out(i, i + 1)) = 1
                  /\ Out(i, i + 1)[1] \in AtomicChillus
                  /\ Segs[i + 2] = <<text[i + 2]>>

(***************************************************************************)
(* Part IV: master_cleanup_1.normalize_zwj and structural_cleanup          *)
(***************************************************************************)
TAB        == 9       \* '\t'
BOM        == 65279   \* U+FEFF
ELLIPSIS   == 8230    \* U+2026
LT         == 60      \* '<'
GT         == 62      \* '>'
SLASH      == 47      \* '/'
DOT        == 46      \* '.'
ASTERISK   == 42      \* '*'
SIGN_AA    == 3390    \* U+0D3E
SIGN_E     == 3398    \* U+0D46
SIGN_EE    == 3399    \* U+0D47
SIGN_O     == 3402    \* U+0D4A
SIGN_OO    == 3403    \* U+0D4B
SIGN_AU    == 3404    \* U+0D4C
AU_LENGTH  == 3415    \* U+0D57

\* length of the maximal run of elements of S that starts at index i
RECURSIVE RunLen(_, _, _)
RunLen(s, i, S) ==
    IF i > Len(s) \/ s[i] \notin S THEN 0 ELSE 1 + RunLen(s, i + 1, S)

\* str.replace(old, new): leftmost non-overlapping occurrences
RECURSIVE ReplaceFrom(_, _, _, _)
ReplaceFrom(s, i, old, new) ==
    IF i > Len(s) THEN <<>>
    ELSE IF i + Len(old) - 1 <= Len(s) /\ SubSeq(s, i, i + Len(old) - 1) = old
         THEN new \o ReplaceFrom(s, i + Len(old), old, new)
         ELSE <<s[i]>> \o ReplaceFrom(s, i + 1, old, new)

replace(s, old, new) == ReplaceFrom(s, 1, old, new)

_CHILLU_PAIRS == << <<<<NNA, virama, zwj>>, <<CHILLU_NN>>>>,
                    <<<<NA,  virama, zwj>>, <<CHILLU_N>>>>,
                    <<<<RA,  virama, zwj>>, <<CHILLU_RR>>>>,
                    <<<<LA,  virama, zwj>>, <<CHILLU_L>>>>,
                    <<<<LLA, virama, zwj>>, <<CHILLU_LL>>>> >>

RECURSIVE ZwjLoop(_, _)
ZwjLoop(s, k) ==
    IF k > Len(_CHILLU_PAIRS) THEN s
    ELSE ZwjLoop(replace(s, _CHILLU_PAIRS[k][1], _CHILLU_PAIRS[k][2]), k + 1)

normalize_zwj(s) == ZwjLoop(s, 1)

\* unicodedata.normalize('NFC', text) on Malayalam + ASCII text: the only
\* canonical compositions are the three two-part vowel signs
NfcPairs == (<<SIGN_E, SIGN_AA>> :> SIGN_O) @@ (<<SIGN_EE, SIGN_AA>> :> SIGN_OO)
            @@ (<<SIGN_E, AU_LENGTH>> :> SIGN_AU)

\* canonical decomposition of the two-part vowel signs (first step of NFC)
RECURSIVE NfcDecompose(_)
NfcDecompose(s) ==
    IF s = <<>> THEN <<>>
    ELSE (IF Head(s) = SIGN_O THEN <<SIGN_E, SIGN_AA>>
          ELSE IF Head(s) = SIGN_OO THEN <<SIGN_EE, SIGN_AA>>
          ELSE IF Head(s) = SIGN_AU THEN <<SIGN_E, AU_LENGTH>>
          ELSE <<Head(s)>>) \o NfcDecompose(Tail(s))

RECURSIVE NfcFrom(_, _)
NfcFrom(s, i) ==
    IF i > Len(s) THEN <<>>
    ELSE IF i < Len(s) /\ <<s[i], s[i + 1]>> \in DOMAIN NfcPairs
         THEN <<NfcPairs[<<s[i], s[i + 1]>>]>> \o NfcFrom(s, i + 2)
         ELSE <<s[i]>> \o NfcFrom(s, i + 1)

NFC(s) == NfcFrom(NfcDecompose(s), 1)

AsciiLetters == (65..90) \cup (97..122)

\* _RE_HTML_TAGS = '</?[a-zA-Z][^>]*/?>' tried at index i: index of the closing
\* '>' when it matches, else 0
HtmlTagEnd(s, i) ==
    IF s[i] # LT THEN 0
    ELSE LET j == IF i + 1 <= Len(s) /\ s[i + 1] = SLASH THEN i + 2 ELSE i + 1
         IN  IF j <= Len(s) /\ s[j] \in AsciiLetters
             THEN FirstIn(s, j + 1, {GT})
             ELSE 0

RECURSIVE StripTagsFrom(_, _)
StripTagsFrom(s, i) ==
    IF i > Len(s) THEN <<>>
    ELSE LET e == HtmlTagEnd(s, i)
         IN  IF e > 0 THEN StripTagsFrom(s, e + 1)
             ELSE <<s[i]>> \o StripTagsFrom(s, i + 1)

\* ALLOWED_EXTRA and _ALLOWED_CP
ALLOWED_EXTRA == {176, 169, 174, 189, 188, 8377, ELLIPSIS, zwj, zwnj}
_ALLOWED_CP == (3328..3455) \cup (32..126) \cup {TAB, NL, CR} \cup ALLOWED_EXTRA

Allowed(c) == c \in _ALLOWED_CP
_filter_chars(s) == SelectSeq(s, Allowed)

_VOWEL_SIGNS_WITH_AU == (SIGN_AA..virama) \cup {AU_LENGTH}
_VALID_BASES == (KA..HA) \cup (CHILLU_NN..CHILLU_K) \cup _VOWEL_SIGNS_WITH_AU

\* _remove_stray_vowel_signs: out is the text kept so far, its last element
\* is prev
RECURSIVE StrayLoop(_, _, _)
StrayLoop(s, i, out) ==
    IF i > Len(s) THEN out
    ELSE IF /\ s[i] \in _VOWEL_SIGNS_WITH_AU
            /\ (out = <<>> \/ out[Len(out)] \notin _VALID_BASES)
         THEN StrayLoop(s, i + 1, out)
         ELSE StrayLoop(s, i + 1, Append(out, s[i]))

\* the scan with a sign judged against the previous character of its input
\* instead of the previous character kept
RECURSIVE StrayLoopRawPrev(_, _, _)
StrayLoopRawPrev(s, i, out) ==
    IF i > Len(s) THEN out
    ELSE IF /\ s[i] \in _VOWEL_SIGNS_WITH_AU
            /\ (i = 1 \/ s[i - 1] \notin _VALID_BASES)
         THEN StrayLoopRawPrev(s, i + 1, out)
         ELSE StrayLoopRawPrev(s, i + 1, Append(out, s[i]))

remove_stray_raw_prev(s) == StrayLoopRawPrev(s, 1, <<>>)

_remove_stray_vowel_signs(s) == StrayLoop(s, 1, <<>>)

\* _RE_ELLIPSIS = '[. U+2026]{2,}' -> '.'   and   _RE_MULTI_SPACE = '[ \t]{2,}' -> ' '
\* and _RE_MULTI_BLANK = '\n{3,}' -> '\n\n': runs of at least `least`
\* elements of S are replaced by `by`
RECURSIVE CollapseRuns(_, _, _, _, _)
CollapseRuns(s, i, S, least, by) ==
    IF i > Len(s) THEN <<>>
    ELSE LET n == RunLen(s, i, S)
         IN  IF n >= least THEN by \o CollapseRuns(s, i + n, S, least, by)
             ELSE <<s[i]>> \o CollapseRuns(s, i + 1, S, least, by)

\* _RE_REPEATED_PUNCT = '([.!?,;:\-*#])\1+' -> '\1'
RepeatedPunct == {46, 33, 63, 44, 59, 58, 45, 42, 35}

RECURSIVE CollapseRepeated(_, _)
CollapseRepeated(s, i) ==
    IF i > Len(s) THEN <<>>
    ELSE LET n == IF s[i] \in RepeatedPunct THEN RunLen(s, i, {s[i]}) ELSE 0
         IN  IF n >= 2 THEN <<s[i]>> \o CollapseRepeated(s, i + n)
             ELSE <<s[i]>> \o CollapseRepeated(s, i + 1)

\* _RE_SPACED_PUNCT = '([.!?,;:])([\s]*[.!?,;:])+' -> '\1'
SpacedPunct == {46, 33, 63, 44, 59, 58}

\* index of the last element of the greedy repetition ([\s]*[.!?,;:])+ that
\* starts after index i (i itself when there is no repetition)
RECURSIVE SpacedEnd(_, _)
SpacedEnd(s, i) ==
    LET j == i + 1 + RunLen(s, i + 1, Whitespace)
    IN  IF j <= Len(s) /\ s[j] \in SpacedPunct THEN SpacedEnd(s, j) ELSE i

RECURSIVE CollapseSpaced(_, _)
CollapseSpaced(s, i) ==
    IF i > Len(s) THEN <<>>
    ELSE LET e == IF s[i] \in SpacedPunct THEN SpacedEnd(s, i) ELSE i
         IN  <<s[i]>> \o CollapseSpaced(s, e + 1)

\* text.split('\n')
RECURSIVE SplitLines(_, _, _)
SplitLines(s, i, cur) ==
    IF i > Len(s) THEN <<cur>>
    ELSE IF s[i] = NL THEN <<cur>> \o SplitLines(s, i + 1, <<>>)
    ELSE SplitLines(s, i + 1, Append(cur, s[i]))

strip(s) == rstrip(lstrip(s, Whitespace), Whitespace)

\* ln and not _RE_ASTERISK_LINE.match(ln), _RE_ASTERISK_LINE = '^[\s*]+$'
KeepLine(ln) == ln # <<>> /\ \E k \in 1..Len(ln) : ln[k] \notin Whitespace \cup {ASTERISK}

\* '\n'.join(lines)
RECURSIVE JoinLines(_)
JoinLines(lines) ==
    IF lines = <<>> THEN <<>>
    ELSE IF Len(lines) = 1 THEN lines[1]
    ELSE lines[1] \o <<NL>> \o JoinLines(Tail(lines))

structural_cleanup(s) ==
    LET t1 == NFC(s)
        t2 == replace(t1, <<BOM>>, <<>>)
        t3 == StripTagsFrom(t2, 1)
        t4 == _filter_chars(t3)
        t5 == _remove_stray_vowel_signs(t4)
        t6 == CollapseRuns(t5, 1, {DOT, ELLIPSIS}, 2, <<DOT>>)
        t7 == CollapseRepeated(t6, 1)
        t8 == CollapseSpaced(t7, 1)
        t9 == CollapseRuns(t8, 1, {SPACE, TAB}, 2, <<SPACE>>)
        lines    == SplitLines(t9, 1, <<>>)
        stripped == [k \in 1..Len(lines) |-> strip(lines[k])]
        kept     == SelectSeq(stripped, KeepLine)
    IN  CollapseRuns(JoinLines(kept), 1, {NL}, 3, <<NL, NL>>)

(***************************************************************************)
(* Both normalisers applied once and twice to bounded texts                *)
(***************************************************************************)
MaxStructLen == 4
\* '<', 'b', '>', '.', ' ', '\n', '*', a consonant, a vowel sign, a
\* scalar outside _ALLOWED_CP (U+4E00)
StructAlphabet == {LT, 98, GT, DOT, SPACE, NL, ASTERISK, KA, SIGN_AA, 19968}
StructTexts == SeqsUpTo(StructAlphabet, MaxStructLen)

\* clean_document: text = structural_cleanup(normalize_zwj(text))
Cleanup ==
    /\ cpc = "ready"
    /\ cleaned' = structural_cleanup(normalize_zwj(text))
    /\ cpc' = "once"
    /\ UNCHANGED <<chunkVars, auxVars, text, npc, normalized, renormalized, recleaned>>

\* the same two steps applied to their own output
Recleanup ==
    /\ cpc = "once"
    /\ recleaned' = structural_cleanup(normalize_zwj(cleaned))
    /\ cpc' = "twice"
    /\ UNCHANGED <<chunkVars, auxVars, text, npc, normalized, renormalized, cleaned>>

InitIdem == InitTexts(SeqsUpTo(ChilluAlphabet, MaxStructLen) \cup StructTexts)
NextIdem == Normalize \/ Renormalize \/ Cleanup \/ Recleanup
SpecIdem == InitIdem /\ [][NextIdem]_vars

\* C6: idempotence: a second pass of rigorous_malayalam_normalization, and a
\* second pass of normalize_zwj + structural_cleanup, returns the output of
\* the first pass unchanged (nothing is left for a second pass to rewrite)
C6_Idempotent ==
    /\ npc = "twice" => renormalized = normalized
    /\ cpc = "twice" => recleaned = cleaned

(***************************************************************************)
(* Part V: find_chillu_pairs and chillu_extract_optimized                  *)
(***************************************************************************)
\* find_chillu_pairs.mapping: consonant + virama -> atomic chillu
mapping == (<<NNA, virama>> :> <<CHILLU_NN>>) @@ (<<NA, virama>> :> <<CHILLU_N>>)
           @@ (<<RA, virama>> :> <<CHILLU_RR>>) @@ (<<LA, virama>> :> <<CHILLU_L>>)
           @@ (<<LLA, virama>> :> <<CHILLU_LL>>) @@ (<<KA, virama>> :> <<CHILLU_K>>)

\* a key of mapping starts at position i of s
KeyAt(s, i) == i + 1 <= Len(s) /\ <<s[i], s[i + 1]>> \in DOMAIN mapping

\* any(k in word for k in mapping)
HasKey(word) == \E i \in 1..Len(word) : KeyAt(word, i)

\* pattern.sub(replace_func, word): the alternation of the keys, replaced
\* left to right by mapping[match.group(0)]
RECURSIVE PatternSub(_, _)
PatternSub(s, i) ==
    IF i > Len(s) THEN <<>>
    ELSE IF KeyAt(s, i) THEN mapping[<<s[i], s[i + 1]>>] \o PatternSub(s, i + 2)
    ELSE <<s[i]>> \o PatternSub(s, i + 1)

\* atomic_word of find_chillu_pairs' loop body (the word itself when the
\* word holds no key and the substitution is not run)
atomic_word(word) == IF HasKey(word) THEN PatternSub(word, 1) ELSE word

\* ---- the three chillu substitutions applied to one text ----
\* one function applied to text, its value kept under its name
Call(name, value) ==
    /\ name \in calls
    /\ name \notin DOMAIN ret
    /\ ret' = ret @@ (name :> value)
    /\ UNCHANGED <<chunkVars, normVars, calls, valid_words, mineVars, streamVars>>

CallRigorous == Call("rigorous_malayalam_normalization",
                     rigorous_malayalam_normalization(text))
CallNormalizeZwj == Call("normalize_zwj", normalize_zwj(text))
CallPatternSub == Call("pattern.sub", atomic_word(text))

\* texts given to a function under test: text is the argument, names the
\* functions applied to it
InitCalls(T, names, V) ==
    /\ text \in T
    /\ npc = "idle" /\ cpc = "idle"
    /\ normalized = <<>> /\ renormalized = <<>>
    /\ cleaned = <<>> /\ recleaned = <<>>
    /\ calls = names /\ ret = NoReturn /\ valid_words \in V
    /\ InitChunkIdle
    /\ InitMineIdle
    /\ InitStreamIdle

SubstAlphabet == {NA, KA, virama, zwj}
SubstTexts == SeqsUpTo(SubstAlphabet, MaxChilluLen)
InitSubst == InitCalls(SubstTexts, {"rigorous_malayalam_normalization",
                                    "normalize_zwj", "pattern.sub"}, {{}})
NextSubst == CallRigorous \/ CallNormalizeZwj \/ CallPatternSub
SpecSubst == InitSubst /\ [][NextSubst]_vars

\* the chillus of the five consonants NNA, NA, RA, LA, LLA
FiveChillus == CHILLU_NN .. CHILLU_LL
\* occurrences of consonant c + virama in s
PairCount(s, c) ==
    Cardinality({i \in 1..(Len(s) - 1) : s[i] = c /\ s[i + 1] = virama})
Scalars(s) == {s[i] : i \in 1..Len(s)}

\* C11: in every chillu substitution (rigorous_malayalam_normalization,
\* normalize_zwj, the substitution of find_chillu_pairs) only the five
\* consonants NNA, NA, RA, LA, LLA + virama are rewritten to an atomic chillu:
\* every atomic chillu the result holds and the text did not hold is one of
\* their five chillus, and every other consonant + virama of the text (KA +
\* virama) is still there as the explicit pair
C11_OnlyFiveConsonants ==
    \A f \in DOMAIN ret :
        /\ (Scalars(ret[f]) \cap AtomicChillus) \ Scalars(text) \subseteq FiveChillus
        /\ \A c \in malayalam_consonants \ FiveBases :
               PairCount(ret[f], c) >= PairCount(text, c)

(***************************************************************************)
(* Part VI: the two Visarga resolvers                                      *)
(***************************************************************************)
\* last index e >= i - 1 such that s[i..e] holds no whitespace: the end of
\* the \S run that starts at i
RECURSIVE TokenEnd(_, _)
TokenEnd(s, i) ==
    IF i > Len(s) \/ s[i] \in Whitespace THEN i - 1 ELSE TokenEnd(s, i + 1)

\* data/clean_visarga.clean_text: pattern (\S+)(VISARGA) substituted left to
\* right; \S+ is greedy, so a match that starts at i ends at the last Visarga
\* of the \S run of i; replacement_func keeps a full match that is in
\* valid_words and writes word_part + ':' otherwise
RECURSIVE CleanTextFrom(_, _, _)
CleanTextFrom(s, i, valid) ==
    IF i > Len(s) THEN <<>>
    ELSE LET Q == {q \in (i + 1)..TokenEnd(s, i) : s[q] = VISARGA}
         IN  IF s[i] \in Whitespace \/ Q = {}
             THEN <<s[i]>> \o CleanTextFrom(s, i + 1, valid)
             ELSE LET q == CHOOSE x \in Q : \A y \in Q : y <= x
                      full_match == SubSeq(s, i, q)
                      word_part == SubSeq(s, i, q - 1)
                  IN  (IF full_match \in valid THEN full_match
                       ELSE word_part \o <<COLON>>)
                      \o CleanTextFrom(s, q + 1, valid)

clean_text(s, valid) == CleanTextFrom(s, 1, valid)

MaxVisargaLen == 5
VisargaAlphabet == {97, VISARGA, SPACE}
VisargaTexts == SeqsUpTo(VisargaAlphabet, MaxVisargaLen)
\* load_valid_words: the first token of each line of the dictionary file
ValidWordSets == SUBSET {<<97, VISARGA>>, <<VISARGA>>}

\* master_cleanup_2, lines 144-145: text = clean_visarga(line.rstrip('\n\r'))
CallCleanVisarga == Call("clean_visarga", clean_visarga(rstrip(text, {NL, CR})))
\* data/clean_visarga.main: cleaned_text = clean_text(text, valid_words)
CallCleanText == Call("clean_text", clean_text(text, valid_words))

InitVisarga == InitCalls(VisargaTexts, {"clean_visarga", "clean_text"}, ValidWordSets)
NextVisarga == CallCleanVisarga \/ CallCleanText
SpecVisarga == InitVisarga /\ [][NextVisarga]_vars

\* the Visarga at position i of s is followed by whitespace or by the end
BeforeSpaceOrEnd(s, i) ==
    s[i] = VISARGA /\ (i = Len(s) \/ s[i + 1] \in Whitespace)
\* the token ending in the Visarga at i: the maximal run of non-whitespace
\* scalars up to and including position i
Token(s, i) ==
    LET j == CHOOSE k \in 1..i :
                 /\ \A m \in k..i : s[m] \notin Whitespace
                 /\ (k = 1 \/ s[k - 1] \in Whitespace)
    IN  SubSeq(s, j, i)

\* C12: Visarga rule, replacement: every Visarga followed by whitespace or by
\* end-of-text whose token is not a validated word is replaced by ':' by both
\* resolvers (clean_visarga of master_cleanup_2, clean_text of clean_visarga)
C12_VisargaReplaced ==
    \A f \in DOMAIN ret : \A i \in 1..Len(text) :
        (BeforeSpaceOrEnd(text, i) /\ Token(text, i) \notin valid_words)
            => ret[f][i] = COLON

\* C13: Visarga rule, mid-token: a Visarga followed by a non-whitespace scalar
\* is left unchanged by both resolvers, for every text and valid-word set
C13_MidTokenUntouched ==
    \A f \in DOMAIN ret : \A i \in 1..(Len(text) - 1) :
        (text[i] = VISARGA /\ text[i + 1] \notin Whitespace)
            => ret[f][i] = VISARGA

\* C14: Visarga rule, validated exception: a Visarga followed by whitespace
\* or end-of-text whose token is in the validated word set is preserved, by
\* clean_text and by the Visarga step of master_cleanup_2
C14_ValidatedWordKept ==
    \A f \in DOMAIN ret : \A i \in 1..Len(text) :
        (BeforeSpaceOrEnd(text, i) /\ Token(text, i) \in valid_words)
            => ret[f][i] = VISARGA

(***************************************************************************)
(* Part VII: the runs of chillu_extract_optimized.main (word extraction)   *)
(* and of find_chillu_pairs (pair mining)                                  *)
(***************************************************************************)
\* PREFILTER_CHARS: virama or any atomic chillu
PREFILTER_CHARS == {virama} \cup AtomicChillus
\* MAL_RANGE: U+0D00..U+0D7F
MAL_RANGE == 3328 .. 3455

\* PATTERN_LOGIC matches at position i of s: one of the five consonants +
\* virama not followed by one of the five consonants, or an atomic chillu
PATTERN_LOGIC(s, i) ==
    \/ s[i] \in AtomicChillus
    \/ /\ s[i] \in FiveBases
       /\ i + 1 <= Len(s) /\ s[i + 1] = virama
       /\ ~(i + 2 <= Len(s) /\ s[i + 2] \in FiveBases)

\* FULL_WORD_RE.finditer(line): MAL_RANGE* PATTERN_LOGIC MAL_RANGE*, both
\* stars greedy: the maximal runs of MAL_RANGE scalars that hold a
\* PATTERN_LOGIC match, from the start of the run to its end
FULL_WORD_RE(line) ==
    {SubSeq(line, a, b) : <<a, b>> \in
        {r \in (1..Len(line)) \X (1..Len(line)) :
            /\ r[1] <= r[2]
            /\ \A k \in r[1]..r[2] : line[k] \in MAL_RANGE
            /\ (r[1] = 1 \/ line[r[1] - 1] \notin MAL_RANGE)
            /\ (r[2] = Len(line) \/ line[r[2] + 1] \notin MAL_RANGE)
            /\ \E k \in r[1]..r[2] : PATTERN_LOGIC(line, k)}}

\* the words one line adds to local_words (lines 68-75)
LineWords(line) ==
    IF Scalars(line) \cap PREFILTER_CHARS = {} THEN {} ELSE FULL_WORD_RE(line)

\* all_words.update(result_set)
Update(words, result_set) == words \cup result_set

\* a < b in the order sorted() gives strings: by scalar, a prefix first
RECURSIVE StrLess(_, _)
StrLess(a, b) ==
    IF b = <<>> THEN FALSE
    ELSE IF a = <<>> THEN TRUE
    ELSE IF Head(a) # Head(b) THEN Head(a) < Head(b)
    ELSE StrLess(Tail(a), Tail(b))

\* sorted(all_words)
RECURSIVE sorted(_)
sorted(S) ==
    IF S = {} THEN <<>>
    ELSE LET m == CHOOSE x \in S : \A y \in S \ {x} : StrLess(x, y)
         IN  <<m>> \o sorted(S \ {m})

ExtractAlphabet == {NL, NA, virama, CHILLU_N}
ExtractFiles == SeqsUpTo(ExtractAlphabet, MaxFileLen)

\* chillu_extract_optimized.main is about to run on an existing input file
InitExtract ==
    /\ file \in ExtractFiles
    /\ num_workers \in 1..MaxWorkers
    /\ epc = "start"
    /\ local_words = [i \in Idx |-> {}]
    /\ all_words = {} /\ collected = <<>> /\ words_file = NoFile
    /\ mappingFile = [isfile |-> FALSE, wellformed |-> FALSE, json |-> EmptyMap]
    /\ output = NoFile /\ output0 = NoFile
    /\ chunks = <<>>
    /\ mainpc = "idle"
    /\ tempDir = FALSE
    /\ tempFile = [i \in Idx |-> NoFile]
    /\ ordered_results = <<>>
    /\ wpc = [i \in Idx |-> "idle"]
    /\ wmap = [i \in Idx |-> EmptyMap]
    /\ bufpos = [i \in Idx |-> 0]
    /\ txtpos = [i \in Idx |-> 0]
    /\ lines_processed = [i \in Idx |-> 0]
    /\ processed = [i \in Idx |-> <<>>]
    /\ outOfOrder = FALSE
    /\ initRaised = FALSE
    /\ input_lines = {} /\ unique_words = {} /\ todo = {}
    /\ visited = <<>> /\ pairs = EmptyMap
    /\ minepc = "idle" /\ pairs_file = NoFile
    /\ InitNormIdle
    /\ InitFunIdle
    /\ InitStreamIdle

\* variables of the master_cleanup_2 run the extractor does not use
unusedChunkVars == <<mappingFile, mainpc, tempDir, tempFile, ordered_results,
                     output, output0, wmap, lines_processed, processed,
                     outOfOrder, initRaised>>
pairVars == <<input_lines, unique_words, todo, visited, pairs, minepc, pairs_file>>
\* what no step of the extractor changes
extractFrame == <<file, num_workers, unusedChunkVars, pairVars, normVars, funVars,
                  streamVars>>

\* main, lines 131-139: _compute_chunks, the pool is created, the chunk
\* tasks are queued
ExtractStart ==
    /\ epc = "start"
    /\ chunks' = _compute_chunks(Len(file), num_workers)
    /\ all_words' = {}
    /\ wpc' = [i \in Idx |-> "queued"]
    /\ epc' = "collect"
    /\ UNCHANGED <<extractFrame, bufpos, txtpos, local_words, collected, words_file>>

\* a pool process enters _process_chunk for chunk i (lines 47-57)
ExtractWorkerStart(i) ==
    /\ wpc[i] = "queued"
    /\ local_words' = [local_words EXCEPT ![i] = {}]
    /\ bufpos' = [bufpos EXCEPT ![i] = SeekStart(file, Chunk(i).start)]
    /\ txtpos' = [txtpos EXCEPT ![i] = SeekStart(file, Chunk(i).start)]
    /\ wpc' = [wpc EXCEPT ![i] = "loop"]
    /\ UNCHANGED <<extractFrame, chunks, epc, all_words, collected, words_file>>

\* one iteration of the while loop that reads a line (lines 59-75)
ExtractWorkerLine(i) ==
    /\ wpc[i] = "loop"
    /\ bufpos[i] < Chunk(i).end
    /\ LET line == TextReadline(file, txtpos[i])
       IN  /\ line # <<>>
           /\ \E p \in TellAfterReadline(file, txtpos[i], bufpos[i]) :
                  bufpos' = [bufpos EXCEPT ![i] = p]
           /\ txtpos' = [txtpos EXCEPT ![i] = @ + Len(line)]
           /\ local_words' = [local_words EXCEPT ![i] = @ \cup LineWords(line)]
    /\ UNCHANGED <<extractFrame, chunks, wpc, epc, all_words, collected, words_file>>

\* the loop ends (pos >= end, or readline returned '') and local_words is
\* returned (lines 60-66, 77)
ExtractWorkerReturn(i) ==
    /\ wpc[i] = "loop"
    /\ \/ bufpos[i] >= Chunk(i).end
       \/ TextReadline(file, txtpos[i]) = <<>>
    /\ wpc' = [wpc EXCEPT ![i] = "done"]
    /\ UNCHANGED <<extractFrame, chunks, bufpos, txtpos, epc, local_words,
                   all_words, collected, words_file>>

\* pool.imap_unordered yields the result of a finished task, whichever it
\* is, and main merges it (lines 139-140)
ExtractCollect ==
    /\ epc = "collect"
    /\ \E i \in Idx :
           /\ wpc[i] = "done"
           /\ \A k \in 1..Len(collected) : collected[k] # i
           /\ all_words' = Update(all_words, local_words[i])
           /\ collected' = Append(collected, i)
    /\ UNCHANGED <<extractFrame, chunks, wpc, bufpos, txtpos, epc, local_words,
                   words_file>>

\* every result was yielded: the sorted words are written, one per line
\* (lines 152-154)
ExtractWrite ==
    /\ epc = "collect"
    /\ Len(collected) = num_workers
    /\ words_file' = Flatten([k \in 1..Cardinality(all_words) |->
                                 sorted(all_words)[k] \o <<NL>>])
                     \o (IF all_words = {} THEN <<NL>> ELSE <<>>)
    /\ epc' = "done"
    /\ UNCHANGED <<extractFrame, chunks, wpc, bufpos, txtpos, local_words,
                   all_words, collected>>

\* ---- find_chillu_pairs ----
\* the test of line 57 on the derived word: it reads unique_words only,
\* never the words visited or the pairs emitted so far
AttestedIfSeen(atomic, words, seen) == atomic \in words /\ atomic \in seen

AttestedAnyway(atomic, words, seen) == TRUE

Attested(atomic, words, seen) == atomic \in words

MaxWordLen == 2
MaxVocab == 2
WordAlphabet == {NA, virama, CHILLU_N}
\* a line of the input file: a word and its line end; the empty word gives
\* a blank line
WordLines == {w \o <<NL>> : w \in SeqsUpTo(WordAlphabet, MaxWordLen)}

\* the subsets of S of at most n elements
RECURSIVE SetsUpTo(_, _)
SetsUpTo(S, n) ==
    IF n = 0 THEN {{}}
    ELSE LET P == SetsUpTo(S, n - 1)
         IN  P \cup {p \cup {x} : p \in P, x \in S}

\* find_chillu_pairs is about to run; set() at line 29 keeps neither the
\* order nor the multiplicity of the lines, so the file is given as the set
\* of its lines
InitMiner ==
    /\ input_lines \in SetsUpTo(WordLines, MaxVocab)
    /\ minepc = "start"
    /\ unique_words = {} /\ todo = {} /\ visited = <<>>
    /\ pairs = EmptyMap /\ pairs_file = NoFile
    /\ epc = "idle" /\ local_words = <<>> /\ all_words = {}
    /\ collected = <<>> /\ words_file = NoFile
    /\ InitChunkIdle
    /\ InitNormIdle
    /\ InitFunIdle
    /\ InitStreamIdle

extractVars == <<epc, local_words, all_words, collected, words_file>>
\* what no step of find_chillu_pairs changes
minerFrame == <<chunkVars, normVars, funVars, extractVars, input_lines, streamVars>>

\* lines 27-33: unique_words = set(line.strip() for line in f if line.strip())
MinerLoad ==
    /\ minepc = "start"
    /\ unique_words' = {strip(l) : l \in input_lines} \ {<<>>}
    /\ todo' = unique_words'
    /\ pairs' = EmptyMap
    /\ minepc' = "loop"
    /\ UNCHANGED <<minerFrame, visited, pairs_file>>

\* one iteration of "for word in unique_words" (lines 46-59); the order in
\* which a set is iterated is not fixed
MinerStep ==
    /\ minepc = "loop"
    /\ \E word \in todo :
           /\ pairs' = IF /\ HasKey(word)
                          /\ atomic_word(word) # word
                          /\ Attested(atomic_word(word), unique_words,
                                      {visited[k] : k \in 1..Len(visited)})
                       THEN (word :> atomic_word(word)) @@ pairs
                       ELSE pairs
           /\ todo' = todo \ {word}
           /\ visited' = Append(visited, word)
    /\ UNCHANGED <<minerFrame, unique_words, minepc, pairs_file>>

\* lines 64-65: json.dump(pairs, f)
MinerSave ==
    /\ minepc = "loop"
    /\ todo = {}
    /\ pairs_file' = pairs
    /\ minepc' = "saved"
    /\ UNCHANGED <<minerFrame, unique_words, todo, visited, pairs>>

InitMine == InitExtract \/ InitMiner
NextMine ==
    \/ ExtractStart
    \/ \E i \in Idx : ExtractWorkerStart(i)
    \/ \E i \in Idx : ExtractWorkerLine(i)
    \/ \E i \in Idx : ExtractWorkerReturn(i)
    \/ ExtractCollect
    \/ ExtractWrite
    \/ MinerLoad
    \/ MinerStep
    \/ MinerSave
SpecMine == InitMine /\ [][NextMine]_vars

\* w with every key of mapping replaced by its atomic chillu, one key after
\* the other with str.replace
RECURSIVE ReplaceKeys(_, _)
ReplaceKeys(w, K) ==
    IF K = {} THEN w
    ELSE LET k == CHOOSE x \in K : TRUE
         IN  ReplaceKeys(replace(w, k, mapping[k]), K \ {k})
Canonical(w) == ReplaceKeys(w, DOMAIN mapping)

\* C15: PairMiner soundness and completeness: for every vocabulary V the
\* saved mapping holds w -> a if and only if w is in V, a is w with every
\* mapped consonant+virama pair replaced by its atomic chillu, a differs from
\* w, and a is in V; a legacy word whose canonical spelling is not in V gets
\* no pair
C15_PairsSoundAndComplete ==
    minepc = "saved" =>
        /\ DOMAIN pairs_file =
               {w \in unique_words : Canonical(w) # w /\ Canonical(w) \in unique_words}
        /\ \A w \in DOMAIN pairs_file : pairs_file[w] = Canonical(w)

\* a pair was saved for a vocabulary holding a legacy word and its canonical
\* spelling
C15_Witness ==
    /\ minepc = "saved"
    /\ \E w \in unique_words :
           /\ HasKey(w)
           /\ w \in DOMAIN pairs_file
           /\ pairs_file[w] \in unique_words \ {w}

\* C16: order-independence: whatever the order in which find_chillu_pairs
\* visits the vocabulary, the decision for a visited word is a function of
\* the word and the vocabulary alone; and whatever the order in which the
\* workers of chillu_extract_optimized complete, all_words is the union of
\* the sets they returned, and the written file is that union sorted
C16_OrderIndependent ==
    /\ \A k \in 1..Len(visited) :
           LET w == visited[k]
               emit == atomic_word(w) # w /\ atomic_word(w) \in unique_words
           IN  /\ (w \in DOMAIN pairs) = emit
               /\ emit => pairs[w] = atomic_word(w)
    /\ epc \in {"collect", "done"} =>
           all_words = UNION {local_words[collected[k]] : k \in 1..Len(collected)}
    /\ epc = "done" =>
           /\ all_words = UNION {local_words[i] : i \in Idx}
           /\ words_file = Flatten([k \in 1..Cardinality(all_words) |->
                                       sorted(all_words)[k] \o <<NL>>])
                           \o (IF all_words = {} THEN <<NL>> ELSE <<>>)

\* the legacy word was visited before its canonical spelling, and its pair
\* was emitted all the same
C16_Witness ==
    /\ minepc = "saved"
    /\ \E i, j \in 1..Len(visited) :
           /\ i < j
           /\ visited[i] \in DOMAIN pairs
           /\ pairs[visited[i]] = visited[j]

(***************************************************************************)
(* Part VIII: remove_boilerplate.classify_line                             *)
(***************************************************************************)
\* BOILERPLATE_KEYWORDS, each keyword as its scalars (adjacent string
\* literals of the list are one keyword, as Python joins them)
BOILERPLATE_KEYWORDS ==
    <<<<169>>, <<67, 111, 112, 121, 114, 105, 103, 104, 116>>, <<65, 108,
    108, 32, 114, 105, 103, 104, 116, 115, 32, 114, 101, 115, 101, 114, 118,
    101, 100>>, <<84, 101, 114, 109, 115, 32, 111, 102, 32, 85, 115, 101>>,
    <<80, 114, 105, 118, 97, 99, 121, 32, 80, 111, 108, 105, 99, 121>>,
    <<68, 105, 115, 99, 108, 97, 105, 109, 101, 114>>, <<99, 111, 111, 107,
    105, 101, 32, 112, 111, 108, 105, 99, 121>>, <<65, 108, 115, 111, 32,
    82, 101, 97, 100>>, <<68, 111, 110, 39, 116, 32, 77, 105, 115, 115>>,
    <<68, 111, 110, 39, 116, 32, 77, 105, 115, 115>>, <<82, 101, 97, 100,
    32, 77, 111, 114, 101>>, <<67, 108, 105, 99, 107, 32, 72, 101, 114,
    101>>, <<82, 101, 97, 100, 32, 65, 108, 115, 111>>, <<82, 69, 65, 68,
    32, 65, 76, 83, 79>>, <<83, 117, 98, 115, 99, 114, 105, 98, 101>>, <<83,
    105, 103, 110, 32, 85, 112>>, <<76, 111, 103, 32, 73, 110>>, <<83, 104,
    97, 114, 101, 32, 116, 104, 105, 115>>, <<70, 111, 108, 108, 111, 119,
    32, 117, 115>>, <<74, 111, 105, 110, 32, 117, 115>>, <<83, 101, 101, 32,
    97, 108, 115, 111>>, <<80, 114, 101, 118, 105, 111, 117, 115, 58>>,
    <<78, 101, 120, 116, 58>>, <<76, 111, 97, 100, 32, 77, 111, 114, 101>>,
    <<83, 104, 111, 119, 32, 77, 111, 114, 101>>, <<86, 105, 101, 119, 32,
    77, 111, 114, 101>>, <<76, 97, 115, 116, 32, 77, 111, 100, 105, 102,
    105, 101, 100>>, <<76, 97, 115, 116, 32, 85, 112, 100, 97, 116, 101,
    100>>, <<69, 110, 103, 108, 105, 115, 104, 32, 69, 100, 105, 116, 105,
    111, 110>>, <<80, 117, 98, 108, 105, 115, 104, 101, 100, 58>>, <<85,
    112, 100, 97, 116, 101, 100, 58>>, <<3374, 3377, 3393, 3368, 3390, 3359,
    3451, 32, 3359, 3391, 3381, 3391, 3375, 3393, 3359, 3398, 32, 3371,
    3399, 3384, 3405, 3372, 3393, 3349, 3405, 3349, 3405, 32, 3370, 3399,
    3356, 3405, 32, 3385, 3390, 3349, 3405, 3349, 3405, 32, 3354, 3398,
    3375, 3405, 3364, 3393>>, <<3383, 3390, 3356, 3451, 32, 3384, 3405,
    3349, 3377, 3391, 3375, 3375, 3393, 3359, 3398, 32, 3381, 3392, 3361,
    3391, 3375, 3403, 32, 3349, 3390, 3363, 3390, 3330>>, <<3349, 3394,
    3359, 3393, 3364, 3453, 32, 3381, 3390, 3375, 3391, 3349, 3405, 3349,
    3393, 3349>>, <<3364, 3393, 3359, 3452, 3368, 3405, 3368, 3405, 32,
    3381, 3390, 3375, 3391, 3349, 3405, 3349, 3393, 3349>>, <<3384, 3372,
    3405, 3384, 3405, 3349, 3405, 3376, 3400, 3372, 3405, 32, 3354, 3398,
    3375, 3405, 3375, 3393, 3349>>, <<3383, 3398, 3375, 3452, 32, 3354,
    3398, 3375, 3405, 3375, 3393, 3349>>, <<3349, 3374, 3368, 3405, 3377,
    3405, 32, 3354, 3398, 3375, 3405, 3375, 3393, 3349>>, <<3378, 3400,
    3349, 3405, 3349, 3405, 32, 3354, 3398, 3375, 3405, 3375, 3393, 3349>>,
    <<3384, 3398, 3452, 3354, 3405, 3354, 3405, 65, 100, 118, 101, 114, 116,
    105, 115, 101, 109, 101, 110, 116>>, <<83, 112, 111, 110, 115, 111, 114,
    101, 100>>, <<65, 100, 32>>, <<75, 101, 121, 119, 111, 114, 100, 115,
    58>>, <<84, 111, 112, 45, 72, 101, 97, 100, 108, 105, 110, 101, 115>>,
    <<66, 101, 103, 105, 110, 32, 116, 121, 112, 105, 110, 103, 32, 121,
    111, 117, 114, 32, 115, 101, 97, 114, 99, 104, 32, 97, 98, 111, 118,
    101>>, <<89, 111, 117, 114, 32, 67, 111, 109, 109, 101, 110, 116, 32,
    65, 100, 100, 101, 100, 32, 83, 117, 99, 99, 101, 115, 115, 102, 117,
    108, 108, 121>>, <<99, 111, 110, 115, 101, 99, 116, 101, 116, 117, 114,
    32, 97, 100, 105, 112, 105, 115, 99, 105, 110, 103, 32, 101, 108, 105,
    116>>, <<83, 97, 118, 101, 32, 109, 121, 32, 110, 97, 109, 101, 44, 32,
    101, 109, 97, 105, 108, 44, 32, 97, 110, 100, 32, 119, 101, 98, 115,
    105, 116, 101>>, <<80, 114, 101, 115, 115, 32, 67, 84, 82, 76, 43, 77,
    32, 116, 111, 32, 116, 111, 103, 103, 108, 101>>, <<68, 111, 119, 110,
    108, 111, 97, 100, 32, 116, 104, 101, 32, 70, 97, 110, 112, 111, 114,
    116, 32, 97, 112, 112>>>>

\* str.lower(): 'A'..'Z' to 'a'..'z'; the other scalars of the keywords and
\* of the lines classified here have no lowercase form
lower(s) == [k \in 1..Len(s) |-> IF s[k] \in 65..90 THEN s[k] + 32 ELSE s[k]]

\* needle in hay
Contains(hay, needle) ==
    \E i \in 0..(Len(hay) - Len(needle)) :
        \A k \in 1..Len(needle) : hay[i + k] = needle[k]

\* the keyword loop of classify_line: kw.lower() in lower
HasKeyword(stripped) ==
    \E n \in 1..Len(BOILERPLATE_KEYWORDS) :
        Contains(lower(stripped), lower(BOILERPLATE_KEYWORDS[n]))

\* \d of a str pattern: the decimal digits of Unicode
Digits ==
    (48..57) \cup (1632..1641) \cup (1776..1785) \cup (1984..1993) \cup
    (2406..2415) \cup (2534..2543) \cup (2662..2671) \cup (2790..2799) \cup
    (2918..2927) \cup (3046..3055) \cup (3174..3183) \cup (3302..3311) \cup
    (3430..3439) \cup (3558..3567) \cup (3664..3673) \cup (3792..3801) \cup
    (3872..3881) \cup (4160..4169) \cup (4240..4249) \cup (6112..6121) \cup
    (6160..6169) \cup (6470..6479) \cup (6608..6617) \cup (6784..6793) \cup
    (6800..6809) \cup (6992..7001) \cup (7088..7097) \cup (7232..7241) \cup
    (7248..7257) \cup (42528..42537) \cup (43216..43225) \cup (43264..43273)
    \cup (43472..43481) \cup (43504..43513) \cup (43600..43609) \cup
    (44016..44025) \cup (65296..65305) \cup (66720..66729) \cup
    (68912..68921) \cup (69734..69743) \cup (69872..69881) \cup
    (69942..69951) \cup (70096..70105) \cup (70384..70393) \cup
    (70736..70745) \cup (70864..70873) \cup (71248..71257) \cup
    (71360..71369) \cup (71472..71481) \cup (71904..71913) \cup
    (72016..72025) \cup (72784..72793) \cup (73040..73049) \cup
    (73120..73129) \cup (92768..92777) \cup (92864..92873) \cup
    (93008..93017) \cup (120782..120831) \cup (123200..123209) \cup
    (123632..123641) \cup (125264..125273) \cup (130032..130041)

\* [A-Za-z] under re.IGNORECASE
AsciiLettersIgnoreCase ==
    {383, 8490} \cup (65..90) \cup (97..122) \cup (304..305)

\* a letter of a pattern under re.IGNORECASE: both cases, and the scalars
\* that case-fold to it (U+0130, U+0131 for i; U+017F for s; U+212A for k)
IC(c) ==
    LET l == IF c \in 65..90 THEN c + 32 ELSE c
    IN  {l, l - 32} \cup (IF l = 105 THEN {304, 305} ELSE {})
                    \cup (IF l = 115 THEN {383} ELSE {})
                    \cup (IF l = 107 THEN {8490} ELSE {})

\* pattern items: a character class (set, or its complement when neg) with
\* the least and the most repetitions (most < 0: unbounded)
Item(S, neg, lo, hi) == [set |-> S, neg |-> neg, lo |-> lo, hi |-> hi]
One(S) == <<Item(S, FALSE, 1, 1)>>
Opt(S) == <<Item(S, FALSE, 0, 1)>>
Star(S) == <<Item(S, FALSE, 0, -1)>>
Plus(S) == <<Item(S, FALSE, 1, -1)>>
Rep(S, lo, hi) == <<Item(S, FALSE, lo, hi)>>
\* . (any scalar but '\n'), .* and .+
DotStar == <<Item({NL}, TRUE, 0, -1)>>
DotPlus == <<Item({NL}, TRUE, 1, -1)>>
\* \S+
NonSpacePlus == <<Item(Whitespace, TRUE, 1, -1)>>
\* [^|]*
NotPipeStar == <<Item({124}, TRUE, 0, -1)>>
\* a literal word, letters under re.IGNORECASE
Lit(w) == [k \in 1..Len(w) |->
              Item(IF w[k] \in (65..90) \cup (97..122) THEN IC(w[k]) ELSE {w[k]},
                   FALSE, 1, 1)]
Pattern(start, items, end) == [start |-> start, items |-> items, end |-> end]

\* BOILERPLATE_PATTERNS compiled with re.IGNORECASE, in list order; a pattern
\* with an alternation of words is given as one pattern per word
COMPILED_PATTERNS ==
    << Pattern(FALSE, Lit(<<169>>) \o DotStar \o Rep(Digits, 4, 4), FALSE),
       Pattern(FALSE, Lit(<<67, 111, 112, 121, 114, 105, 103, 104, 116>>) \o
           DotStar \o Rep(Digits, 4, 4), FALSE),
       Pattern(FALSE, Lit(<<65, 108, 108>>) \o Plus(Whitespace) \o Lit(<<114,
           105, 103, 104, 116, 115>>) \o Plus(Whitespace) \o Lit(<<114,
           101, 115, 101, 114, 118, 101, 100>>), FALSE),
       Pattern(TRUE, Lit(<<45>>) \o Star(Whitespace) \o Lit(<<78, 101, 119,
           115>>) \o One(Whitespace), FALSE),
       Pattern(TRUE, Lit(<<45>>) \o Star(Whitespace) \o Lit(<<84, 101, 99, 104,
           110, 111, 108, 111, 103, 121>>) \o One(Whitespace), FALSE),
       Pattern(TRUE, Lit(<<45>>) \o Star(Whitespace) \o Lit(<<83, 112, 111, 114,
           116, 115>>) \o One(Whitespace), FALSE),
       Pattern(TRUE, Lit(<<45>>) \o Star(Whitespace) \o Lit(<<69, 110, 116, 101,
           114, 116, 97, 105, 110, 109, 101, 110, 116>>) \o
           One(Whitespace), FALSE),
       Pattern(TRUE, Lit(<<45>>) \o Star(Whitespace) \o Lit(<<66, 117, 115, 105,
           110, 101, 115, 115>>) \o One(Whitespace), FALSE),
       Pattern(TRUE, Lit(<<45>>) \o Star(Whitespace) \o Lit(<<87, 111, 114, 108,
           100>>) \o One(Whitespace), FALSE),
       Pattern(TRUE, Lit(<<45>>) \o Star(Whitespace) \o Lit(<<78, 97, 116, 105,
           111, 110, 97, 108>>) \o One(Whitespace), FALSE),
       Pattern(TRUE, Lit(<<45>>) \o Star(Whitespace) \o Lit(<<73, 110, 100, 105,
           97>>) \o One(Whitespace), FALSE),
       Pattern(TRUE, Star(Whitespace) \o Rep({45, 124, 8226, 183, 61}, 3, -1) \o
           Star(Whitespace), TRUE),
       Pattern(TRUE, Star(Whitespace) \o Opt({124}) \o Star(Whitespace) \o
           Rep(Digits, 1, 2) \o Star(Whitespace) \o
           Plus(AsciiLettersIgnoreCase) \o Star(Whitespace) \o Rep(Digits,
           4, 4) \o Star(Whitespace), TRUE),
       Pattern(TRUE, Lit(<<77, 111, 110, 100, 97, 121>>) \o Star(Whitespace) \o
           Opt({44}) \o Plus(Whitespace) \o One(Digits), FALSE),
       Pattern(TRUE, Lit(<<84, 117, 101, 115, 100, 97, 121>>) \o Star(Whitespace)
           \o Opt({44}) \o Plus(Whitespace) \o One(Digits), FALSE),
       Pattern(TRUE, Lit(<<87, 101, 100, 110, 101, 115, 100, 97, 121>>) \o
           Star(Whitespace) \o Opt({44}) \o Plus(Whitespace) \o
           One(Digits), FALSE),
       Pattern(TRUE, Lit(<<84, 104, 117, 114, 115, 100, 97, 121>>) \o
           Star(Whitespace) \o Opt({44}) \o Plus(Whitespace) \o
           One(Digits), FALSE),
       Pattern(TRUE, Lit(<<70, 114, 105, 100, 97, 121>>) \o Star(Whitespace) \o
           Opt({44}) \o Plus(Whitespace) \o One(Digits), FALSE),
       Pattern(TRUE, Lit(<<83, 97, 116, 117, 114, 100, 97, 121>>) \o
           Star(Whitespace) \o Opt({44}) \o Plus(Whitespace) \o
           One(Digits), FALSE),
       Pattern(TRUE, Lit(<<83, 117, 110, 100, 97, 121>>) \o Star(Whitespace) \o
           Opt({44}) \o Plus(Whitespace) \o One(Digits), FALSE),
       Pattern(FALSE, Lit(<<104, 116, 116, 112>>) \o Opt(IC(115)) \o Lit(<<58,
           47, 47>>) \o NonSpacePlus, FALSE),
       Pattern(FALSE, Lit(<<65, 114, 99, 104, 105, 118, 101, 100>>) \o
           Plus(Whitespace) \o Rep(Digits, 4, 4) \o Lit(<<45>>) \o
           Rep(Digits, 2, 2) \o Lit(<<45>>) \o Rep(Digits, 2, 2) \o
           Plus(Whitespace) \o Lit(<<97, 116>>) \o Plus(Whitespace) \o
           Lit(<<116, 104, 101>>) \o Plus(Whitespace) \o Lit(<<87, 97,
           121, 98, 97, 99, 107>>) \o Plus(Whitespace) \o Lit(<<77, 97,
           99, 104, 105, 110, 101>>), FALSE),
       Pattern(TRUE, NotPipeStar \o One({124}) \o NotPipeStar \o One({124}) \o
           NotPipeStar \o One({124}), FALSE),
       Pattern(TRUE, Lit(<<45>>) \o Plus(Whitespace) \o DotPlus \o One({59}) \o
           Plus(Whitespace) \o DotPlus \o One({59}) \o Plus(Whitespace) \o
           DotPlus \o One({59}) \o Plus(Whitespace) \o DotPlus \o
           One({59}) \o Plus(Whitespace), FALSE),
       Pattern(FALSE, One({43}) \o Rep(Digits, 1, 4) \o Opt({45, 46} \cup
           Whitespace) \o Rep(Digits, 1, 4) \o Opt({45, 46} \cup
           Whitespace) \o Rep(Digits, 1, 4) \o Opt({45, 46} \cup
           Whitespace) \o Rep(Digits, 1, 9), FALSE) >>

\* scalar c is in the class of item it
InClass(it, c) == IF it.neg THEN c \notin it.set ELSE c \in it.set

\* number of scalars of s from position i on that are in the class of it
RECURSIVE ClassRun(_, _, _)
ClassRun(it, s, i) ==
    IF i > Len(s) \/ ~InClass(it, s[i]) THEN 0 ELSE 1 + ClassRun(it, s, i + 1)

\* items k.. of a pattern match s from position i on (up to the end of s
\* when the pattern ends in $)
RECURSIVE MatchItems(_, _, _, _, _)
MatchItems(items, k, s, i, end) ==
    IF k > Len(items) THEN (~end \/ i = Len(s) + 1)
    ELSE LET run == ClassRun(items[k], s, i)
             most == IF items[k].hi < 0 THEN run ELSE Min(items[k].hi, run)
         IN  \E n \in items[k].lo .. most :
                 MatchItems(items, k + 1, s, i + n, end)

\* pat.search(stripped)
search(pat, s) ==
    \E i \in (IF pat.start THEN {1} ELSE 1..(Len(s) + 1)) :
        MatchItems(pat.items, 1, s, i, pat.end)

\* the regex loop of classify_line
MatchesPattern(stripped) ==
    \E n \in 1..Len(COMPILED_PATTERNS) : search(COMPILED_PATTERNS[n], stripped)

\* len(_ML_RANGE.findall(line)) and len(_ALPHA.findall(line))
CountIn(s, S) == Cardinality({k \in 1..Len(s) : s[k] \in S})

\* _malayalam_ratio(line) < 0.15, the ratio being 0.0 without alphabetic
\* scalars: ml / alpha < 3 / 20
LowMalayalamRatio(line) ==
    LET alpha == CountIn(line, (65..90) \cup (97..122) \cup MAL_RANGE)
        ml == CountIn(line, MAL_RANGE)
    IN  alpha = 0 \/ ml * 20 < 3 * alpha

is_heuristic_boilerplate(line) ==
    LET stripped == strip(line)
    IN  \/ (0 < Len(stripped) /\ Len(stripped) < 5)
        \/ (Len(stripped) > 30 /\ LowMalayalamRatio(stripped))

\* the same rules with the heuristic tried before the keywords
classify_line_heuristic_first(line) ==
    LET stripped == strip(line)
    IN  IF stripped = <<>> THEN "remove_empty"
        ELSE IF is_heuristic_boilerplate(stripped) THEN "remove_heuristic"
        ELSE IF HasKeyword(stripped) THEN "remove_keyword"
        ELSE IF MatchesPattern(stripped) THEN "remove_regex"
        ELSE "keep"

classify_line(line) ==
    LET stripped == strip(line)
    IN  IF stripped = <<>> THEN "remove_empty"
        ELSE IF HasKeyword(stripped) THEN "remove_keyword"
        ELSE IF MatchesPattern(stripped) THEN "remove_regex"
        ELSE IF is_heuristic_boilerplate(stripped) THEN "remove_heuristic"
        ELSE "keep"

MaxLineLen == 5
\* (c), '-', '|', ' ', 'a', a Malayalam consonant
LineAlphabet == {169, 45, 124, SPACE, 97, NA}
\* n times the scalar c
Times(c, n) == [k \in 1..n |-> c]
\* lines longer than 30 scalars, for the ratio rule: Latin only, Malayalam
\* only, and Latin with a keyword, with a separator run, with three pipes
LongLines == {Times(97, 31), Times(NA, 31), <<169>> \o Times(97, 31),
              <<124, 124, 124>> \o Times(97, 31),
              <<124, 124, 124>> \o Times(NA, 31)}
Lines == SeqsUpTo(LineAlphabet, MaxLineLen) \cup LongLines

\* clean_file: action = classify_line(line)
CallClassifyLine == Call("classify_line", classify_line(text))

InitBoiler == InitCalls(Lines, {"classify_line"}, {{}})
NextBoiler == CallClassifyLine
SpecBoiler == InitBoiler /\ [][NextBoiler]_vars

\* C17: boilerplate priority: blank, keyword, regex, heuristic are tried in
\* that order and the first match wins: a non-blank line with a keyword is
\* 'remove_keyword' even when a heuristic threshold holds too, a line with a
\* regex match and no keyword is 'remove_regex' even when a heuristic holds,
\* and 'keep' is returned only when no rule matches
C17_FirstMatchWins ==
    "classify_line" \in DOMAIN ret =>
        LET label == ret["classify_line"]
            stripped == strip(text)
            blank == stripped = <<>>
            kw == HasKeyword(stripped)
            rx == MatchesPattern(stripped)
            heur == is_heuristic_boilerplate(stripped)
        IN  /\ (~blank /\ kw) => label = "remove_keyword"
            /\ (~blank /\ ~kw /\ rx) => label = "remove_regex"
            /\ (label = "remove_heuristic") => (~blank /\ ~kw /\ ~rx /\ heur)
            /\ (label = "keep") <=> (~blank /\ ~kw /\ ~rx /\ ~heur)

\* a short line that holds a keyword was labelled 'remove_keyword'
C17_Witness ==
    /\ "classify_line" \in DOMAIN ret
    /\ ret["classify_line"] = "remove_keyword"
    /\ HasKeyword(strip(text))
    /\ is_heuristic_boilerplate(strip(text))

\* ---------------------------------------------------------------------
\* Part IX: a mapping file that is missing or malformed
\* ---------------------------------------------------------------------

\* chillu_replace.MalayalamWordNormalizer._load_mapping: the file's object,
\* {} after any exception of open or json.load
_load_mapping(mf) == IF mf.isfile /\ mf.wellformed THEN mf.json ELSE EmptyMap

\* the pool process of a chunk has run _init_worker to its end
InitWorkerDone(i) == wpc[i] \in {"loop", "done", "raised"} \/ processed[i] # <<>>

\* C18: mapping errors degrade, never fail: with a mapping file that is
\* missing or not well-formed JSON no pool process of master_cleanup_2 fails
\* in its initializer, every worker starts with an empty mapping, each line
\* written is the Visarga-cleaned input line, and _load_mapping of
\* MalayalamWordNormalizer returns an empty mapping
C18_MappingErrorsDegrade ==
    (~mappingFile.isfile \/ ~mappingFile.wellformed) =>
        LET ap == AllProcessed
        IN  /\ ~initRaised
            /\ \A i \in Idx : InitWorkerDone(i) => wmap[i] = EmptyMap
            /\ \A k \in 1..Len(ap) :
                  ap[k].out = clean_visarga(rstrip(ap[k].line, {NL, CR})) \o <<NL>>
            /\ _load_mapping(mappingFile) = EmptyMap

\* ---------------------------------------------------------------------
\* Part X: the structural filter of structural_cleanup.py, and both
\* structural filters applied to one text
\* ---------------------------------------------------------------------

is_allowed_char(cp) ==
    \/ cp \in 3328..3455
    \/ cp \in 32..126
    \/ cp \in {TAB, NL, CR}
    \/ cp \in ALLOWED_EXTRA

MALAYALAM_VOWEL_SIGNS == (SIGN_AA..virama) \cup {AU_LENGTH}
MALAYALAM_VALID_BASES ==
    (KA..HA) \cup (CHILLU_NN..CHILLU_K) \cup MALAYALAM_VOWEL_SIGNS

\* the loop of remove_stray_vowel_signs: result is the text kept so far, prev
\* its last character
RECURSIVE StrayScan(_, _, _)
StrayScan(s, i, result) ==
    IF i > Len(s) THEN result
    ELSE IF /\ s[i] \in MALAYALAM_VOWEL_SIGNS
            /\ (result = <<>> \/ result[Len(result)] \notin MALAYALAM_VALID_BASES)
         THEN StrayScan(s, i + 1, result)
         ELSE StrayScan(s, i + 1, Append(result, s[i]))

\* (cleaned_text, count_of_removed_signs)
remove_stray_vowel_signs(s) ==
    LET result == StrayScan(s, 1, <<>>)
    IN  [text |-> result, removed |-> Len(s) - Len(result)]

\* clean_text of structural_cleanup.py: (text, len(lines), len(final_lines))
structural_cleanup_clean_text(s) ==
    LET t1 == NFC(s)
        t2 == replace(t1, <<92, 110>>, <<NL>>)
        t3 == replace(t2, <<BOM>>, <<>>)
        t4 == SelectSeq(t3, is_allowed_char)
        t5 == remove_stray_vowel_signs(t4).text
        t6 == CollapseRuns(t5, 1, {DOT, ELLIPSIS}, 2, <<DOT>>)
        t7 == CollapseRepeated(t6, 1)
        t8 == CollapseRuns(t7, 1, {SPACE, TAB}, 2, <<SPACE>>)
        lines       == SplitLines(t8, 1, <<>>)
        stripped    == [k \in 1..Len(lines) |-> strip(lines[k])]
        final_lines == SelectSeq(stripped, KeepLine)
    IN  [text  |-> CollapseRuns(JoinLines(final_lines), 1, {NL}, 3, <<NL, NL>>),
         lines |-> Len(lines),
         final |-> Len(final_lines)]

MaxStrayLen == 4
\* a consonant, two vowel signs (U+0D46 U+0D3E compose to U+0D4A), a scalar
\* outside the allow-list (U+4E00), ' ', '.'
StrayAlphabet == {KA, SIGN_E, SIGN_AA, 19968, SPACE, DOT}
MaxBlankLen == 6
\* 'a', '\n', ' '
BlankAlphabet == {97, NL, SPACE}
FilterTexts == SeqsUpTo(StrayAlphabet, MaxStrayLen) \cup SeqsUpTo(BlankAlphabet, MaxBlankLen)

CallStructuralCleanup == Call("structural_cleanup", structural_cleanup(text))
CallStructuralCleanText ==
    Call("clean_text", structural_cleanup_clean_text(text).text)

InitStruct == InitCalls(FilterTexts, {"structural_cleanup", "clean_text"}, {{}})
NextStruct == CallStructuralCleanup \/ CallStructuralCleanText
SpecStruct == InitStruct /\ [][NextStruct]_vars

\* the text each filter hands to its allow-list step
PreFilterStructuralCleanup(s) == StripTagsFrom(replace(NFC(s), <<BOM>>, <<>>), 1)
PreFilterCleanText(s) == replace(replace(NFC(s), <<92, 110>>, <<NL>>), <<BOM>>, <<>>)

\* what the allow-list step and the stray-sign scan keep of a text
KeptStructuralCleanup(p) == _remove_stray_vowel_signs(_filter_chars(p))
KeptCleanText(p) == remove_stray_vowel_signs(SelectSeq(p, is_allowed_char)).text

\* character i of p is kept by the two steps: the scan is left to right, so
\* the fate of character i is settled by p[1..i]
Survives(Keep(_), p, i) == Len(Keep(SubSeq(p, 1, i))) > Len(Keep(SubSeq(p, 1, i - 1)))

\* the nearest character before i that is kept, 0 when there is none
RECURSIVE PrevSurvivor(_, _, _)
PrevSurvivor(Keep(_), p, i) ==
    IF i <= 1 THEN 0
    ELSE IF Survives(Keep, p, i - 1) THEN i - 1
    ELSE PrevSurvivor(Keep, p, i - 1)

VowelSigns == (3390..3405) \cup {3415}
SignBases == (3349..3385) \cup (3450..3455) \cup VowelSigns

\* every vowel sign of out is immediately preceded by a consonant, an atomic
\* chillu or a vowel sign
SignsHaveBases(out) ==
    \A k \in 1..Len(out) :
        out[k] \in VowelSigns => (k > 1 /\ out[k - 1] \in SignBases)

\* a vowel sign right after a character that was not kept is not kept
AfterDroppedIsDropped(Keep(_), p) ==
    \A i \in 2..Len(p) :
        (p[i] \in VowelSigns /\ ~Survives(Keep, p, i - 1)) => ~Survives(Keep, p, i)

\* a vowel sign is kept exactly when the nearest kept character before it
\* exists and is a valid base; a vowel sign right after a dropped vowel sign
\* is dropped
JudgedAgainstSurvivor(Keep(_), p) ==
    /\ \A i \in 1..Len(p) :
          p[i] \in VowelSigns =>
             LET j == PrevSurvivor(Keep, p, i)
             IN  Survives(Keep, p, i) <=> (j > 0 /\ p[j] \in SignBases)
    /\ \A i \in 2..Len(p) :
          (p[i] \in VowelSigns /\ p[i - 1] \in VowelSigns /\ ~Survives(Keep, p, i - 1))
             => ~Survives(Keep, p, i)

CleanTextOf(s) == structural_cleanup_clean_text(s).text

\* lines p < q of an input are content lines (the filter F returns text for
\* each) and the lines between them are blank and at least three
SeparatedByBlankRun(F(_), lines, p, q) ==
    /\ q - p - 1 >= 3
    /\ F(lines[p]) # <<>> /\ F(lines[q]) # <<>>
    /\ \A k \in (p + 1)..(q - 1) : strip(lines[k]) = <<>>

\* out holds the two filtered lines with exactly one empty line between
OneBlankLineBetween(F(_), s, out) ==
    LET lines == SplitLines(s, 1, <<>>)
        o     == SplitLines(out, 1, <<>>)
    IN  \A p, q \in 1..Len(lines) :
            SeparatedByBlankRun(F, lines, p, q) =>
                \E k \in 1..(Len(o) - 2) : /\ o[k] = F(lines[p])
                                           /\ o[k + 1] = <<>>
                                           /\ o[k + 2] = F(lines[q])

\* C20: blank-line collapsing: when two content lines of the input are
\* separated by three or more consecutive blank lines, structural_cleanup and
\* clean_text return those two content lines separated by exactly one blank
\* line
C20_BlankRunBecomesOneBlankLine ==
    /\ "structural_cleanup" \in DOMAIN ret =>
          OneBlankLineBetween(structural_cleanup, text, ret["structural_cleanup"])
    /\ "clean_text" \in DOMAIN ret =>
          OneBlankLineBetween(CleanTextOf, text, ret["clean_text"])

\* ---------------------------------------------------------------------
\* Part XI: decoding of the input file by the corpus readers
\* ---------------------------------------------------------------------

\* number of continuation bytes a UTF-8 lead byte announces, -1 for a byte
\* that cannot start a sequence
Continuations(b) ==
    IF b < 128 THEN 0
    ELSE IF b \in 194..223 THEN 1
    ELSE IF b \in 224..239 THEN 2
    ELSE IF b \in 240..244 THEN 3
    ELSE -1

\* values the byte after the lead byte b may have
SecondByte(b) ==
    IF b = 224 THEN 160..191
    ELSE IF b = 237 THEN 128..159
    ELSE IF b = 240 THEN 144..191
    ELSE IF b = 244 THEN 128..143
    ELSE 128..191

\* number of bytes after position i that continue the sequence started at i
RECURSIVE ValidTail(_, _, _, _)
ValidTail(bs, i, k, need) ==
    IF k > need \/ i + k > Len(bs) THEN k - 1
    ELSE IF bs[i + k] \in (IF k = 1 THEN SecondByte(bs[i]) ELSE 128..191)
         THEN ValidTail(bs, i, k + 1, need)
         ELSE k - 1

\* scalar value of the well-formed sequence bs[i..i+n]
RECURSIVE Payload(_, _, _)
Payload(bs, i, n) ==
    IF n = 0 THEN (IF bs[i] < 128 THEN bs[i]
                   ELSE IF bs[i] < 224 THEN bs[i] - 192
                   ELSE IF bs[i] < 240 THEN bs[i] - 224
                   ELSE bs[i] - 240)
    ELSE Payload(bs, i, n - 1) * 64 + (bs[i + n] - 128)

\* U+FFFD
REPLACEMENT == 65533

\* the codec 'utf-8' on the bytes from position i: with errors='replace' each
\* ill-formed maximal subpart becomes U+FFFD; with errors='strict' (the
\* default of open) the first one raises UnicodeDecodeError
RECURSIVE DecodeFrom(_, _, _)
DecodeFrom(bs, i, errors) ==
    IF i > Len(bs) THEN [raised |-> FALSE, text |-> <<>>]
    ELSE LET need == Continuations(bs[i])
             have == IF need < 0 THEN 0 ELSE ValidTail(bs, i, 1, need)
             good == need >= 0 /\ have = need
             rest == DecodeFrom(bs, i + have + 1, errors)
         IN  IF ~good /\ errors = "strict"
             THEN [raised |-> TRUE, text |-> <<>>]
             ELSE [raised |-> rest.raised,
                   text   |-> IF rest.raised THEN <<>>
                              ELSE <<IF good THEN Payload(bs, i, need)
                                     ELSE REPLACEMENT>> \o rest.text]

decode(bs, errors) == DecodeFrom(bs, 1, errors)

\* open(filepath, 'r', encoding='utf-8', errors='replace') of the chunk worker
\* of master_cleanup_2 and of chillu_extract_optimized
open_replace(bs) == decode(bs, "replace")
\* open(path, 'r', encoding='utf-8') of master_cleanup_1._line_reader
_line_reader(bs) == decode(bs, "strict")

MaxByteLen == 4
\* 'a', '\n', the three bytes of U+0D15 (E0 B4 95), and FF
ByteAlphabet == {97, NL, 224, 180, 149, 255}
ByteFiles == SeqsUpTo(ByteAlphabet, MaxByteLen)

DecodeChunkToFile == Call("_process_chunk_to_file", open_replace(text))
DecodeChunk == Call("_process_chunk", open_replace(text))
DecodeLines == Call("_line_reader", _line_reader(text))

InitDecode ==
    InitCalls(ByteFiles, {"_process_chunk_to_file", "_process_chunk", "_line_reader"}, {{}})
NextDecode == DecodeChunkToFile \/ DecodeChunk \/ DecodeLines
SpecDecode == InitDecode /\ [][NextDecode]_vars

\* the bytes are well-formed UTF-8
RECURSIVE WellFormedFrom(_, _)
WellFormedFrom(bs, i) ==
    IF i > Len(bs) THEN TRUE
    ELSE LET need == Continuations(bs[i])
         IN  /\ need >= 0
             /\ ValidTail(bs, i, 1, need) = need
             /\ WellFormedFrom(bs, i + need + 1)

\* C21: decoding errors are never fatal: on a file holding bytes that are
\* not valid UTF-8 the reader of the master_cleanup_2 chunk worker, of the
\* chillu_extract_optimized chunk worker and of master_cleanup_1 does not
\* raise and reads the replacement character U+FFFD in their place
C21_DecodingNeverFatal ==
    \A name \in DOMAIN ret :
        ~WellFormedFrom(text, 1) =>
            /\ ~ret[name].raised
            /\ \E k \in 1..Len(ret[name].text) : ret[name].text[k] = REPLACEMENT

\* ---------------------------------------------------------------------
\* Part XII: wikipedia_cleaning: _should_remove_line and _clean_line
\* ---------------------------------------------------------------------

MIN_LINE_LENGTH == 10

\* \w of a str pattern: the ranges of the scalars c with chr(c).isalnum(),
\* and '_'
WordRanges == {
    <<48, 57>>, <<65, 90>>, <<95, 95>>, <<97, 122>>, <<170, 170>>,
    <<178, 179>>, <<181, 181>>, <<185, 186>>, <<188, 190>>, <<192, 214>>,
    <<216, 246>>, <<248, 705>>, <<710, 721>>, <<736, 740>>, <<748, 748>>,
    <<750, 750>>, <<880, 884>>, <<886, 887>>, <<890, 893>>, <<895, 895>>,
    <<902, 902>>, <<904, 906>>, <<908, 908>>, <<910, 929>>, <<931, 1013>>,
    <<1015, 1153>>, <<1162, 1327>>, <<1329, 1366>>, <<1369, 1369>>,
    <<1376, 1416>>, <<1488, 1514>>, <<1519, 1522>>, <<1568, 1610>>,
    <<1632, 1641>>, <<1646, 1647>>, <<1649, 1747>>, <<1749, 1749>>,
    <<1765, 1766>>, <<1774, 1788>>, <<1791, 1791>>, <<1808, 1808>>,
    <<1810, 1839>>, <<1869, 1957>>, <<1969, 1969>>, <<1984, 2026>>,
    <<2036, 2037>>, <<2042, 2042>>, <<2048, 2069>>, <<2074, 2074>>,
    <<2084, 2084>>, <<2088, 2088>>, <<2112, 2136>>, <<2144, 2154>>,
    <<2160, 2183>>, <<2185, 2190>>, <<2208, 2249>>, <<2308, 2361>>,
    <<2365, 2365>>, <<2384, 2384>>, <<2392, 2401>>, <<2406, 2415>>,
    <<2417, 2432>>, <<2437, 2444>>, <<2447, 2448>>, <<2451, 2472>>,
    <<2474, 2480>>, <<2482, 2482>>, <<2486, 2489>>, <<2493, 2493>>,
    <<2510, 2510>>, <<2524, 2525>>, <<2527, 2529>>, <<2534, 2545>>,
    <<2548, 2553>>, <<2556, 2556>>, <<2565, 2570>>, <<2575, 2576>>,
    <<2579, 2600>>, <<2602, 2608>>, <<2610, 2611>>, <<2613, 2614>>,
    <<2616, 2617>>, <<2649, 2652>>, <<2654, 2654>>, <<2662, 2671>>,
    <<2674, 2676>>, <<2693, 2701>>, <<2703, 2705>>, <<2707, 2728>>,
    <<2730, 2736>>, <<2738, 2739>>, <<2741, 2745>>, <<2749, 2749>>,
    <<2768, 2768>>, <<2784, 2785>>, <<2790, 2799>>, <<2809, 2809>>,
    <<2821, 2828>>, <<2831, 2832>>, <<2835, 2856>>, <<2858, 2864>>,
    <<2866, 2867>>, <<2869, 2873>>, <<2877, 2877>>, <<2908, 2909>>,
    <<2911, 2913>>, <<2918, 2927>>, <<2929, 2935>>, <<2947, 2947>>,
    <<2949, 2954>>, <<2958, 2960>>, <<2962, 2965>>, <<2969, 2970>>,
    <<2972, 2972>>, <<2974, 2975>>, <<2979, 2980>>, <<2984, 2986>>,
    <<2990, 3001>>, <<3024, 3024>>, <<3046, 3058>>, <<3077, 3084>>,
    <<3086, 3088>>, <<3090, 3112>>, <<3114, 3129>>, <<3133, 3133>>,
    <<3160, 3162>>, <<3165, 3165>>, <<3168, 3169>>, <<3174, 3183>>,
    <<3192, 3198>>, <<3200, 3200>>, <<3205, 3212>>, <<3214, 3216>>,
    <<3218, 3240>>, <<3242, 3251>>, <<3253, 3257>>, <<3261, 3261>>,
    <<3293, 3294>>, <<3296, 3297>>, <<3302, 3311>>, <<3313, 3314>>,
    <<3332, 3340>>, <<3342, 3344>>, <<3346, 3386>>, <<3389, 3389>>,
    <<3406, 3406>>, <<3412, 3414>>, <<3416, 3425>>, <<3430, 3448>>,
    <<3450, 3455>>, <<3461, 3478>>, <<3482, 3505>>, <<3507, 3515>>,
    <<3517, 3517>>, <<3520, 3526>>, <<3558, 3567>>, <<3585, 3632>>,
    <<3634, 3635>>, <<3648, 3654>>, <<3664, 3673>>, <<3713, 3714>>,
    <<3716, 3716>>, <<3718, 3722>>, <<3724, 3747>>, <<3749, 3749>>,
    <<3751, 3760>>, <<3762, 3763>>, <<3773, 3773>>, <<3776, 3780>>,
    <<3782, 3782>>, <<3792, 3801>>, <<3804, 3807>>, <<3840, 3840>>,
    <<3872, 3891>>, <<3904, 3911>>, <<3913, 3948>>, <<3976, 3980>>,
    <<4096, 4138>>, <<4159, 4169>>, <<4176, 4181>>, <<4186, 4189>>,
    <<4193, 4193>>, <<4197, 4198>>, <<4206, 4208>>, <<4213, 4225>>,
    <<4238, 4238>>, <<4240, 4249>>, <<4256, 4293>>, <<4295, 4295>>,
    <<4301, 4301>>, <<4304, 4346>>, <<4348, 4680>>, <<4682, 4685>>,
    <<4688, 4694>>, <<4696, 4696>>, <<4698, 4701>>, <<4704, 4744>>,
    <<4746, 4749>>, <<4752, 4784>>, <<4786, 4789>>, <<4792, 4798>>,
    <<4800, 4800>>, <<4802, 4805>>, <<4808, 4822>>, <<4824, 4880>>,
    <<4882, 4885>>, <<4888, 4954>>, <<4969, 4988>>, <<4992, 5007>>,
    <<5024, 5109>>, <<5112, 5117>>, <<5121, 5740>>, <<5743, 5759>>,
    <<5761, 5786>>, <<5792, 5866>>, <<5870, 5880>>, <<5888, 5905>>,
    <<5919, 5937>>, <<5952, 5969>>, <<5984, 5996>>, <<5998, 6000>>,
    <<6016, 6067>>, <<6103, 6103>>, <<6108, 6108>>, <<6112, 6121>>,
    <<6128, 6137>>, <<6160, 6169>>, <<6176, 6264>>, <<6272, 6276>>,
    <<6279, 6312>>, <<6314, 6314>>, <<6320, 6389>>, <<6400, 6430>>,
    <<6470, 6509>>, <<6512, 6516>>, <<6528, 6571>>, <<6576, 6601>>,
    <<6608, 6618>>, <<6656, 6678>>, <<6688, 6740>>, <<6784, 6793>>,
    <<6800, 6809>>, <<6823, 6823>>, <<6917, 6963>>, <<6981, 6988>>,
    <<6992, 7001>>, <<7043, 7072>>, <<7086, 7141>>, <<7168, 7203>>,
    <<7232, 7241>>, <<7245, 7293>>, <<7296, 7304>>, <<7312, 7354>>,
    <<7357, 7359>>, <<7401, 7404>>, <<7406, 7411>>, <<7413, 7414>>,
    <<7418, 7418>>, <<7424, 7615>>, <<7680, 7957>>, <<7960, 7965>>,
    <<7968, 8005>>, <<8008, 8013>>, <<8016, 8023>>, <<8025, 8025>>,
    <<8027, 8027>>, <<8029, 8029>>, <<8031, 8061>>, <<8064, 8116>>,
    <<8118, 8124>>, <<8126, 8126>>, <<8130, 8132>>, <<8134, 8140>>,
    <<8144, 8147>>, <<8150, 8155>>, <<8160, 8172>>, <<8178, 8180>>,
    <<8182, 8188>>, <<8304, 8305>>, <<8308, 8313>>, <<8319, 8329>>,
    <<8336, 8348>>, <<8450, 8450>>, <<8455, 8455>>, <<8458, 8467>>,
    <<8469, 8469>>, <<8473, 8477>>, <<8484, 8484>>, <<8486, 8486>>,
    <<8488, 8488>>, <<8490, 8493>>, <<8495, 8505>>, <<8508, 8511>>,
    <<8517, 8521>>, <<8526, 8526>>, <<8528, 8585>>, <<9312, 9371>>,
    <<9450, 9471>>, <<10102, 10131>>, <<11264, 11492>>, <<11499, 11502>>,
    <<11506, 11507>>, <<11517, 11517>>, <<11520, 11557>>, <<11559, 11559>>,
    <<11565, 11565>>, <<11568, 11623>>, <<11631, 11631>>, <<11648, 11670>>,
    <<11680, 11686>>, <<11688, 11694>>, <<11696, 11702>>, <<11704, 11710>>,
    <<11712, 11718>>, <<11720, 11726>>, <<11728, 11734>>, <<11736, 11742>>,
    <<11823, 11823>>, <<12293, 12295>>, <<12321, 12329>>, <<12337, 12341>>,
    <<12344, 12348>>, <<12353, 12438>>, <<12445, 12447>>, <<12449, 12538>>,
    <<12540, 12543>>, <<12549, 12591>>, <<12593, 12686>>, <<12690, 12693>>,
    <<12704, 12735>>, <<12784, 12799>>, <<12832, 12841>>, <<12872, 12879>>,
    <<12881, 12895>>, <<12928, 12937>>, <<12977, 12991>>, <<13312, 19903>>,
    <<19968, 42124>>, <<42192, 42237>>, <<42240, 42508>>, <<42512, 42539>>,
    <<42560, 42606>>, <<42623, 42653>>, <<42656, 42735>>, <<42775, 42783>>,
    <<42786, 42888>>, <<42891, 42954>>, <<42960, 42961>>, <<42963, 42963>>,
    <<42965, 42969>>, <<42994, 43009>>, <<43011, 43013>>, <<43015, 43018>>,
    <<43020, 43042>>, <<43056, 43061>>, <<43072, 43123>>, <<43138, 43187>>,
    <<43216, 43225>>, <<43250, 43255>>, <<43259, 43259>>, <<43261, 43262>>,
    <<43264, 43301>>, <<43312, 43334>>, <<43360, 43388>>, <<43396, 43442>>,
    <<43471, 43481>>, <<43488, 43492>>, <<43494, 43518>>, <<43520, 43560>>,
    <<43584, 43586>>, <<43588, 43595>>, <<43600, 43609>>, <<43616, 43638>>,
    <<43642, 43642>>, <<43646, 43695>>, <<43697, 43697>>, <<43701, 43702>>,
    <<43705, 43709>>, <<43712, 43712>>, <<43714, 43714>>, <<43739, 43741>>,
    <<43744, 43754>>, <<43762, 43764>>, <<43777, 43782>>, <<43785, 43790>>,
    <<43793, 43798>>, <<43808, 43814>>, <<43816, 43822>>, <<43824, 43866>>,
    <<43868, 43881>>, <<43888, 44002>>, <<44016, 44025>>, <<44032, 55203>>,
    <<55216, 55238>>, <<55243, 55291>>, <<63744, 64109>>, <<64112, 64217>>,
    <<64256, 64262>>, <<64275, 64279>>, <<64285, 64285>>, <<64287, 64296>>,
    <<64298, 64310>>, <<64312, 64316>>, <<64318, 64318>>, <<64320, 64321>>,
    <<64323, 64324>>, <<64326, 64433>>, <<64467, 64829>>, <<64848, 64911>>,
    <<64914, 64967>>, <<65008, 65019>>, <<65136, 65140>>, <<65142, 65276>>,
    <<65296, 65305>>, <<65313, 65338>>, <<65345, 65370>>, <<65382, 65470>>,
    <<65474, 65479>>, <<65482, 65487>>, <<65490, 65495>>, <<65498, 65500>>,
    <<65536, 65547>>, <<65549, 65574>>, <<65576, 65594>>, <<65596, 65597>>,
    <<65599, 65613>>, <<65616, 65629>>, <<65664, 65786>>, <<65799, 65843>>,
    <<65856, 65912>>, <<65930, 65931>>, <<66176, 66204>>, <<66208, 66256>>,
    <<66273, 66299>>, <<66304, 66339>>, <<66349, 66378>>, <<66384, 66421>>,
    <<66432, 66461>>, <<66464, 66499>>, <<66504, 66511>>, <<66513, 66517>>,
    <<66560, 66717>>, <<66720, 66729>>, <<66736, 66771>>, <<66776, 66811>>,
    <<66816, 66855>>, <<66864, 66915>>, <<66928, 66938>>, <<66940, 66954>>,
    <<66956, 66962>>, <<66964, 66965>>, <<66967, 66977>>, <<66979, 66993>>,
    <<66995, 67001>>, <<67003, 67004>>, <<67072, 67382>>, <<67392, 67413>>,
    <<67424, 67431>>, <<67456, 67461>>, <<67463, 67504>>, <<67506, 67514>>,
    <<67584, 67589>>, <<67592, 67592>>, <<67594, 67637>>, <<67639, 67640>>,
    <<67644, 67644>>, <<67647, 67669>>, <<67672, 67702>>, <<67705, 67742>>,
    <<67751, 67759>>, <<67808, 67826>>, <<67828, 67829>>, <<67835, 67867>>,
    <<67872, 67897>>, <<67968, 68023>>, <<68028, 68047>>, <<68050, 68096>>,
    <<68112, 68115>>, <<68117, 68119>>, <<68121, 68149>>, <<68160, 68168>>,
    <<68192, 68222>>, <<68224, 68255>>, <<68288, 68295>>, <<68297, 68324>>,
    <<68331, 68335>>, <<68352, 68405>>, <<68416, 68437>>, <<68440, 68466>>,
    <<68472, 68497>>, <<68521, 68527>>, <<68608, 68680>>, <<68736, 68786>>,
    <<68800, 68850>>, <<68858, 68899>>, <<68912, 68921>>, <<69216, 69246>>,
    <<69248, 69289>>, <<69296, 69297>>, <<69376, 69415>>, <<69424, 69445>>,
    <<69457, 69460>>, <<69488, 69505>>, <<69552, 69579>>, <<69600, 69622>>,
    <<69635, 69687>>, <<69714, 69743>>, <<69745, 69746>>, <<69749, 69749>>,
    <<69763, 69807>>, <<69840, 69864>>, <<69872, 69881>>, <<69891, 69926>>,
    <<69942, 69951>>, <<69956, 69956>>, <<69959, 69959>>, <<69968, 70002>>,
    <<70006, 70006>>, <<70019, 70066>>, <<70081, 70084>>, <<70096, 70106>>,
    <<70108, 70108>>, <<70113, 70132>>, <<70144, 70161>>, <<70163, 70187>>,
    <<70272, 70278>>, <<70280, 70280>>, <<70282, 70285>>, <<70287, 70301>>,
    <<70303, 70312>>, <<70320, 70366>>, <<70384, 70393>>, <<70405, 70412>>,
    <<70415, 70416>>, <<70419, 70440>>, <<70442, 70448>>, <<70450, 70451>>,
    <<70453, 70457>>, <<70461, 70461>>, <<70480, 70480>>, <<70493, 70497>>,
    <<70656, 70708>>, <<70727, 70730>>, <<70736, 70745>>, <<70751, 70753>>,
    <<70784, 70831>>, <<70852, 70853>>, <<70855, 70855>>, <<70864, 70873>>,
    <<71040, 71086>>, <<71128, 71131>>, <<71168, 71215>>, <<71236, 71236>>,
    <<71248, 71257>>, <<71296, 71338>>, <<71352, 71352>>, <<71360, 71369>>,
    <<71424, 71450>>, <<71472, 71483>>, <<71488, 71494>>, <<71680, 71723>>,
    <<71840, 71922>>, <<71935, 71942>>, <<71945, 71945>>, <<71948, 71955>>,
    <<71957, 71958>>, <<71960, 71983>>, <<71999, 71999>>, <<72001, 72001>>,
    <<72016, 72025>>, <<72096, 72103>>, <<72106, 72144>>, <<72161, 72161>>,
    <<72163, 72163>>, <<72192, 72192>>, <<72203, 72242>>, <<72250, 72250>>,
    <<72272, 72272>>, <<72284, 72329>>, <<72349, 72349>>, <<72368, 72440>>,
    <<72704, 72712>>, <<72714, 72750>>, <<72768, 72768>>, <<72784, 72812>>,
    <<72818, 72847>>, <<72960, 72966>>, <<72968, 72969>>, <<72971, 73008>>,
    <<73030, 73030>>, <<73040, 73049>>, <<73056, 73061>>, <<73063, 73064>>,
    <<73066, 73097>>, <<73112, 73112>>, <<73120, 73129>>, <<73440, 73458>>,
    <<73648, 73648>>, <<73664, 73684>>, <<73728, 74649>>, <<74752, 74862>>,
    <<74880, 75075>>, <<77712, 77808>>, <<77824, 78894>>, <<82944, 83526>>,
    <<92160, 92728>>, <<92736, 92766>>, <<92768, 92777>>, <<92784, 92862>>,
    <<92864, 92873>>, <<92880, 92909>>, <<92928, 92975>>, <<92992, 92995>>,
    <<93008, 93017>>, <<93019, 93025>>, <<93027, 93047>>, <<93053, 93071>>,
    <<93760, 93846>>, <<93952, 94026>>, <<94032, 94032>>, <<94099, 94111>>,
    <<94176, 94177>>, <<94179, 94179>>, <<94208, 100343>>,
    <<100352, 101589>>, <<101632, 101640>>, <<110576, 110579>>,
    <<110581, 110587>>, <<110589, 110590>>, <<110592, 110882>>,
    <<110928, 110930>>, <<110948, 110951>>, <<110960, 111355>>,
    <<113664, 113770>>, <<113776, 113788>>, <<113792, 113800>>,
    <<113808, 113817>>, <<119520, 119539>>, <<119648, 119672>>,
    <<119808, 119892>>, <<119894, 119964>>, <<119966, 119967>>,
    <<119970, 119970>>, <<119973, 119974>>, <<119977, 119980>>,
    <<119982, 119993>>, <<119995, 119995>>, <<119997, 120003>>,
    <<120005, 120069>>, <<120071, 120074>>, <<120077, 120084>>,
    <<120086, 120092>>, <<120094, 120121>>, <<120123, 120126>>,
    <<120128, 120132>>, <<120134, 120134>>, <<120138, 120144>>,
    <<120146, 120485>>, <<120488, 120512>>, <<120514, 120538>>,
    <<120540, 120570>>, <<120572, 120596>>, <<120598, 120628>>,
    <<120630, 120654>>, <<120656, 120686>>, <<120688, 120712>>,
    <<120714, 120744>>, <<120746, 120770>>, <<120772, 120779>>,
    <<120782, 120831>>, <<122624, 122654>>, <<123136, 123180>>,
    <<123191, 123197>>, <<123200, 123209>>, <<123214, 123214>>,
    <<123536, 123565>>, <<123584, 123627>>, <<123632, 123641>>,
    <<124896, 124902>>, <<124904, 124907>>, <<124909, 124910>>,
    <<124912, 124926>>, <<124928, 125124>>, <<125127, 125135>>,
    <<125184, 125251>>, <<125259, 125259>>, <<125264, 125273>>,
    <<126065, 126123>>, <<126125, 126127>>, <<126129, 126132>>,
    <<126209, 126253>>, <<126255, 126269>>, <<126464, 126467>>,
    <<126469, 126495>>, <<126497, 126498>>, <<126500, 126500>>,
    <<126503, 126503>>, <<126505, 126514>>, <<126516, 126519>>,
    <<126521, 126521>>, <<126523, 126523>>, <<126530, 126530>>,
    <<126535, 126535>>, <<126537, 126537>>, <<126539, 126539>>,
    <<126541, 126543>>, <<126545, 126546>>, <<126548, 126548>>,
    <<126551, 126551>>, <<126553, 126553>>, <<126555, 126555>>,
    <<126557, 126557>>, <<126559, 126559>>, <<126561, 126562>>,
    <<126564, 126564>>, <<126567, 126570>>, <<126572, 126578>>,
    <<126580, 126583>>, <<126585, 126588>>, <<126590, 126590>>,
    <<126592, 126601>>, <<126603, 126619>>, <<126625, 126627>>,
    <<126629, 126633>>, <<126635, 126651>>, <<127232, 127244>>,
    <<130032, 130041>>, <<131072, 173791>>, <<173824, 177976>>,
    <<177984, 178205>>, <<178208, 183969>>, <<183984, 191456>>,
    <<194560, 195101>>, <<196608, 201546>>}
WordChars == UNION {r[1]..r[2] : r \in WordRanges}

\* a literal word of a pattern compiled without re.IGNORECASE
Exact(w) == [k \in 1..Len(w) |-> Item({w[k]}, FALSE, 1, 1)]

\* some pattern of the sequence pats is found in s
AnySearch(pats, s) == \E n \in 1..Len(pats) : search(pats[n], s)

\* '^\[?\[?\s*<category>:' (matched at the start)
_RE_CATEGORY ==
    << Pattern(TRUE, Opt({91}) \o Opt({91}) \o Star(Whitespace) \o Exact(<<3381, 3452, 3351, 3405, 3351, 3330, 58>>), FALSE) >>

\* '^\s*[\{\|\}!\-\+]'
_RE_TABLE_MARKER ==
    << Pattern(TRUE, Star(Whitespace) \o One({123, 124, 125, 33, 45, 43}), FALSE) >>

\* '\|.*\|.*\|'
_RE_PIPE_ROW ==
    << Pattern(FALSE, One({124}) \o DotStar \o One({124}) \o DotStar \o One({124}), FALSE) >>

\* '^\s*\|'
_RE_PIPE_START ==
    << Pattern(TRUE, Star(Whitespace) \o One({124}), FALSE) >>

\* the five stub words, re.IGNORECASE
_RE_STUB ==
    << Pattern(FALSE, Lit(<<3333, 3370, 3394, 3452, 3363, 3405, 3363, 3374, 3390, 3363, 3405>>), FALSE),
       Pattern(FALSE, Lit(<<3333, 3370, 3394, 3452, 3363, 3374, 3390, 3363, 3405>>), FALSE),
       Pattern(FALSE, Lit(<<3333, 3370, 3394, 3452, 3363, 3405, 3363, 3330>>), FALSE),
       Pattern(FALSE, Lit(<<3333, 3370, 3394, 3452, 3363, 3330>>), FALSE),
       Pattern(FALSE, Lit(<<115, 116, 117, 98>>), FALSE) >>

\* '^[\d\s(degree)'"NSEW,.\-]+$'
_RE_COORD_ONLY ==
    << Pattern(TRUE, Plus(Digits \cup Whitespace \cup {176, 39, 34, 78, 83, 69, 87, 44, 46, 45}), TRUE) >>

\* '^\d{4}\s*$'
_RE_BARE_YEAR ==
    << Pattern(TRUE, Rep(Digits, 4, 4) \o Star(Whitespace), TRUE) >>

\* '^\d{1,2}\s+\S+\s*\d{0,4}\s*$'
_RE_DATE_ONLY ==
    << Pattern(TRUE, Rep(Digits, 1, 2) \o Plus(Whitespace) \o NonSpacePlus \o Star(Whitespace) \o Rep(Digits, 0, 4) \o Star(Whitespace), TRUE) >>

\* '\$\\?\w|\\displaystyle|\\text\{|\\frac\{|\\mathbf|\\mathrm|\\begin\{|\\end\{'
_RE_LATEX ==
    << Pattern(FALSE, One({36}) \o Opt({92}) \o One(WordChars), FALSE),
       Pattern(FALSE, Exact(<<92, 100, 105, 115, 112, 108, 97, 121, 115, 116, 121, 108, 101>>), FALSE),
       Pattern(FALSE, Exact(<<92, 116, 101, 120, 116, 123>>), FALSE),
       Pattern(FALSE, Exact(<<92, 102, 114, 97, 99, 123>>), FALSE),
       Pattern(FALSE, Exact(<<92, 109, 97, 116, 104, 98, 102>>), FALSE),
       Pattern(FALSE, Exact(<<92, 109, 97, 116, 104, 114, 109>>), FALSE),
       Pattern(FALSE, Exact(<<92, 98, 101, 103, 105, 110, 123>>), FALSE),
       Pattern(FALSE, Exact(<<92, 101, 110, 100, 123>>), FALSE) >>

\* '^[\s\[\](){}]*$'
_RE_EMPTY_BRACKETS ==
    << Pattern(TRUE, Star(Whitespace \cup {91, 93, 40, 41, 123, 125}), TRUE) >>

\* '(upright\s*=|\|\s*thumb\s*\||\d+px\s*\||alt\s*=|frame\s*\||frameless\s*\|)'
_RE_WIKI_IMAGE ==
    << Pattern(FALSE, Exact(<<117, 112, 114, 105, 103, 104, 116>>) \o Star(Whitespace) \o One({61}), FALSE),
       Pattern(FALSE, One({124}) \o Star(Whitespace) \o Exact(<<116, 104, 117, 109, 98>>) \o Star(Whitespace) \o One({124}), FALSE),
       Pattern(FALSE, Plus(Digits) \o Exact(<<112, 120>>) \o Star(Whitespace) \o One({124}), FALSE),
       Pattern(FALSE, Exact(<<97, 108, 116>>) \o Star(Whitespace) \o One({61}), FALSE),
       Pattern(FALSE, Exact(<<102, 114, 97, 109, 101>>) \o Star(Whitespace) \o One({124}), FALSE),
       Pattern(FALSE, Exact(<<102, 114, 97, 109, 101, 108, 101, 115, 115>>) \o Star(Whitespace) \o One({124}), FALSE) >>

\* '(%\w+%|[A-Z]:\\|/usr/|/etc/|/var/|\\debug\\|\\system32)'
_RE_FILE_PATH ==
    << Pattern(FALSE, One({37}) \o Plus(WordChars) \o One({37}), FALSE),
       Pattern(FALSE, One(65..90) \o Exact(<<58, 92>>), FALSE),
       Pattern(FALSE, Exact(<<47, 117, 115, 114, 47>>), FALSE),
       Pattern(FALSE, Exact(<<47, 101, 116, 99, 47>>), FALSE),
       Pattern(FALSE, Exact(<<47, 118, 97, 114, 47>>), FALSE),
       Pattern(FALSE, Exact(<<92, 100, 101, 98, 117, 103, 92>>), FALSE),
       Pattern(FALSE, Exact(<<92, 115, 121, 115, 116, 101, 109, 51, 50>>), FALSE) >>

\* one alternative of _RE_PHONETIC from index i on: tokens open, one or more
\* of [a-zA-Z~.] and the three IPA marks, close, then [\s,]*, to the end
PhoneticClass == (65..90) \cup (97..122) \cup {126, 46, 720, 712, 716}
RECURSIVE PhoneticTokens(_, _, _, _, _)
PhoneticTokens(s, i, open, close, n) ==
    IF i > Len(s) THEN n >= 1
    ELSE LET r == RunLen(s, i + 1, PhoneticClass)
             e == i + 1 + r
         IN  /\ s[i] = open
             /\ r >= 1
             /\ e <= Len(s) /\ s[e] = close
             /\ PhoneticTokens(s, e + 1 + RunLen(s, e + 1, Whitespace \cup {44}),
                               open, close, n + 1)

\* _RE_PHONETIC.search(s): '^[\s]*(/.../[\s,]*)+$' or '^[\s]*(\[...\][\s,]*)+$'
_RE_PHONETIC(s) ==
    LET i == 1 + RunLen(s, 1, Whitespace)
    IN  PhoneticTokens(s, i, 47, 47, 0) \/ PhoneticTokens(s, i, 91, 93, 0)

_should_remove_line(line) ==
    LET stripped == strip(line)
    IN  \/ stripped = <<>>
        \/ AnySearch(_RE_CATEGORY, stripped)
        \/ AnySearch(_RE_TABLE_MARKER, stripped)
        \/ AnySearch(_RE_PIPE_ROW, stripped)
        \/ AnySearch(_RE_PIPE_START, stripped)
        \/ Len(stripped) < MIN_LINE_LENGTH
        \/ AnySearch(_RE_STUB, stripped)
        \/ (AnySearch(_RE_COORD_ONLY, stripped) /\ Len(stripped) > 2)
        \/ AnySearch(_RE_BARE_YEAR, stripped)
        \/ AnySearch(_RE_DATE_ONLY, stripped)
        \/ AnySearch(_RE_LATEX, stripped)
        \/ AnySearch(_RE_EMPTY_BRACKETS, stripped)
        \/ AnySearch(_RE_WIKI_IMAGE, stripped)
        \/ AnySearch(_RE_FILE_PATH, stripped)
        \/ _RE_PHONETIC(stripped)

\* the literal w is in s at index i
At(s, i, w) == i + Len(w) - 1 <= Len(s) /\ SubSeq(s, i, i + Len(w) - 1) = w

\* pattern.sub: Match(s, i) is [n |-> length of the match at i, 0 for none,
\* by |-> its replacement]; matches are taken leftmost, not overlapping
RECURSIVE RegexSub(_, _, _)
RegexSub(Match(_, _), s, i) ==
    IF i > Len(s) THEN <<>>
    ELSE LET m == Match(s, i)
         IN  IF m.n > 0 THEN m.by \o RegexSub(Match, s, i + m.n)
             ELSE <<s[i]>> \o RegexSub(Match, s, i + 1)

NoMatch == [n |-> 0, by |-> <<>>]

\* index of the last '|' of s[a..b], 0 when there is none
RECURSIVE LastPipe(_, _, _)
LastPipe(s, a, b) ==
    IF b < a THEN 0 ELSE IF s[b] = 124 THEN b ELSE LastPipe(s, a, b - 1)

\* _RE_WIKI_LINK = '\[\[(?:[^\]]*\|)?([^\]]+)\]\]' replaced by group 1
_RE_WIKI_LINK(s, i) ==
    IF ~At(s, i, <<91, 91>>) THEN NoMatch
    ELSE LET j == FirstIn(s, i + 2, {93})
         IN  IF j > i + 2 /\ At(s, j, <<93, 93>>)
             THEN LET p == LastPipe(s, i + 2, j - 2)
                  IN  [n  |-> j + 2 - i,
                       by |-> SubSeq(s, (IF p > 0 THEN p + 1 ELSE i + 2), j - 1)]
             ELSE NoMatch

\* _RE_TEMPLATE = '\{\{[^}]*\}\}' replaced by ''
_RE_TEMPLATE(s, i) ==
    IF ~At(s, i, <<123, 123>>) THEN NoMatch
    ELSE LET j == FirstIn(s, i + 2, {125})
         IN  IF j > 0 /\ At(s, j, <<125, 125>>)
             THEN [n |-> j + 2 - i, by |-> <<>>]
             ELSE NoMatch

\* the tail '\s*=+\s*$' of _RE_SECTION_HDR from index k on
HeaderTail(s, k) ==
    LET a == k + RunLen(s, k, Whitespace)
        e == RunLen(s, a, {61})
    IN  e >= 1 /\ a + e + RunLen(s, a + e, Whitespace) = Len(s) + 1

\* _RE_SECTION_HDR = '^(=+)\s*(.+?)\s*=+\s*$' matched at the start: (=+) and
\* \s* take as much as they can, (.+?) as little; [a, b] are the indices of
\* group 2, none when there is no match
SectionHeader(s) ==
    LET eq   == RunLen(s, 1, {61})
        cand == {c \in (1..eq) \X (0..Len(s)) \X (1..Len(s)) :
                    /\ c[2] <= RunLen(s, c[1] + 1, Whitespace)
                    /\ c[1] + c[2] + c[3] <= Len(s)
                    /\ \A k \in (c[1] + c[2] + 1)..(c[1] + c[2] + c[3]) : s[k] # NL
                    /\ HeaderTail(s, c[1] + c[2] + c[3] + 1)}
        first == CHOOSE c \in cand :
                    \A d \in cand :
                        \/ c[1] > d[1]
                        \/ (c[1] = d[1] /\ c[2] > d[2])
                        \/ (c[1] = d[1] /\ c[2] = d[2] /\ c[3] <= d[3])
    IN  IF cand = {} THEN [none |-> TRUE, group2 |-> <<>>]
        ELSE [none   |-> FALSE,
              group2 |-> SubSeq(s, first[1] + first[2] + 1,
                                first[1] + first[2] + first[3])]

\* _RE_BULLET = '^[\*#]+\s*': length of the match at the start, 0 for none
_RE_BULLET(s) ==
    LET r == RunLen(s, 1, {42, 35})
    IN  IF r = 0 THEN 0 ELSE r + RunLen(s, r + 1, Whitespace)

\* _RE_REF_TAG = '</?ref[^>]*/?>' replaced by ''
_RE_REF_TAG(s, i) ==
    LET k == IF At(s, i, <<60, 47>>) THEN i + 2 ELSE i + 1
    IN  IF i <= Len(s) /\ s[i] = 60 /\ At(s, k, <<114, 101, 102>>)
           /\ FirstIn(s, k + 3, {62}) > 0
        THEN [n |-> FirstIn(s, k + 3, {62}) + 1 - i, by |-> <<>>]
        ELSE NoMatch

\* length of the run of non-whitespace scalars from index i on
RECURSIVE NonSpaceRun(_, _)
NonSpaceRun(s, i) ==
    IF i > Len(s) \/ s[i] \in Whitespace THEN 0 ELSE 1 + NonSpaceRun(s, i + 1)

\* _RE_URL = 'https?://\S+' replaced by ''
_RE_URL(s, i) ==
    LET k == IF At(s, i, <<104, 116, 116, 112, 115>>) THEN i + 5 ELSE i + 4
    IN  IF At(s, i, <<104, 116, 116, 112>>) /\ At(s, k, <<58, 47, 47>>)
           /\ k + 3 <= Len(s) /\ s[k + 3] \notin Whitespace
        THEN [n |-> k + 3 + NonSpaceRun(s, k + 3) - i, by |-> <<>>]
        ELSE NoMatch

\* _RE_INLINE_BRACKETS = '\[[pc]?\]' replaced by ''
_RE_INLINE_BRACKETS(s, i) ==
    IF At(s, i, <<91, 93>>) THEN [n |-> 2, by |-> <<>>]
    ELSE IF At(s, i, <<91, 112, 93>>) \/ At(s, i, <<91, 99, 93>>)
         THEN [n |-> 3, by |-> <<>>]
    ELSE NoMatch

\* _RE_INLINE_PHONETIC = '/(?:[a-zA-Z~]+)/|/i~i~ai~aj~ej~oj/|/~~/' replaced
\* by '' (the first alternative matches whatever the other two match)
_RE_INLINE_PHONETIC(s, i) ==
    LET r == RunLen(s, i + 1, (65..90) \cup (97..122) \cup {126})
    IN  IF i <= Len(s) /\ s[i] = 47 /\ r >= 1 /\ At(s, i + 1 + r, <<47>>)
        THEN [n |-> r + 2, by |-> <<>>]
        ELSE NoMatch

\* the steps of _clean_line, in its order; None is [none |-> TRUE]
NoLine == [none |-> TRUE, text |-> <<>>]

\* if '[[' in line: line = _RE_WIKI_LINK.sub(r'\1', line)
SubWikiLinks(s) == IF Contains(s, <<91, 91>>) THEN RegexSub(_RE_WIKI_LINK, s, 1) ELSE s
\* if '{{' in line: line = _RE_TEMPLATE.sub('', line)
SubTemplates(s) == IF Contains(s, <<123, 123>>) THEN RegexSub(_RE_TEMPLATE, s, 1) ELSE s
\* if '<ref' in lower or '</ref' in lower: line = _RE_REF_TAG.sub('', line)
SubRefTags(s) ==
    IF \/ Contains(lower(s), <<60, 114, 101, 102>>)
       \/ Contains(lower(s), <<60, 47, 114, 101, 102>>)
    THEN RegexSub(_RE_REF_TAG, s, 1) ELSE s
\* if 'http' in line: line = _RE_URL.sub('', line)
SubUrls(s) == IF Contains(s, <<104, 116, 116, 112>>) THEN RegexSub(_RE_URL, s, 1) ELSE s
\* if '[' in line: line = _RE_INLINE_BRACKETS.sub('', line)
SubInlineBrackets(s) == IF Contains(s, <<91>>) THEN RegexSub(_RE_INLINE_BRACKETS, s, 1) ELSE s
\* if '/' in line: line = _RE_INLINE_PHONETIC.sub('', line)
SubInlinePhonetic(s) == IF Contains(s, <<47>>) THEN RegexSub(_RE_INLINE_PHONETIC, s, 1) ELSE s
\* line = _RE_MULTI_SPACE.sub(' ', line).strip()
CollapseSpaces(s) == strip(CollapseRuns(s, 1, {SPACE, TAB}, 2, <<SPACE>>))

\* the final length test and the return
CleanResult(s) ==
    IF Len(s) < MIN_LINE_LENGTH THEN NoLine ELSE [none |-> FALSE, text |-> s]

\* from the bullet step on
CleanFromBullet(s) ==
    LET b      == _RE_BULLET(s)
        nobull == IF b > 0 THEN strip(SubSeq(s, b + 1, Len(s))) ELSE s
    IN  IF b > 0 /\ Len(nobull) < MIN_LINE_LENGTH THEN NoLine
        ELSE CleanResult(CollapseSpaces(SubInlinePhonetic(SubInlineBrackets(
                 SubUrls(SubRefTags(nobull))))))

\* from the section-header step on, hdr being _RE_SECTION_HDR.match(s)
CleanFromHeader(s, hdr) ==
    IF hdr.none THEN CleanFromBullet(s)
    ELSE IF Len(strip(hdr.group2)) < MIN_LINE_LENGTH THEN NoLine
    ELSE CleanFromBullet(strip(hdr.group2))

CleanFromMarkup(s) == CleanFromHeader(s, SectionHeader(s))

\* _clean_line: [none |-> TRUE] for None, else the cleaned text
_clean_line(line) ==
    IF _should_remove_line(line) THEN NoLine
    ELSE CleanFromMarkup(SubTemplates(SubWikiLinks(strip(line))))

\* the inputs of test_cases of test_combined_cleaning.py
test_cases ==
    {
     <<84, 104, 105, 115, 32, 105, 115, 32, 97, 32, 116, 101, 115, 116,
       32, 91, 112, 93>>,
     <<91, 99, 93, 32, 83, 116, 97, 114, 116, 32, 111, 102, 32, 115, 101,
       110, 116, 101, 110, 99, 101>>,
     <<77, 105, 100, 100, 108, 101, 32, 47, 97, 105, 47, 32, 111, 102, 32,
       115, 101, 110, 116, 101, 110, 99, 101>>,
     <<77, 117, 108, 116, 105, 112, 108, 101, 32, 47, 116, 126, 116, 47,
       32, 97, 110, 100, 32, 47, 100, 126, 100, 47, 32, 109, 97, 114, 107,
       101, 114, 115>>,
     <<67, 111, 109, 112, 108, 101, 120, 32, 47, 105, 126, 105, 126, 97,
       105, 126, 97, 106, 126, 101, 106, 126, 111, 106, 47, 32, 112, 97,
       116, 116, 101, 114, 110>>,
     <<67, 108, 101, 97, 110, 32, 115, 101, 110, 116, 101, 110, 99, 101>>,
     <<91, 93>>,
     <<83, 104, 111, 114, 116, 32, 91, 112, 93>>,
     <<76, 111, 110, 103, 32, 101, 110, 111, 117, 103, 104, 32, 115, 101,
       110, 116, 101, 110, 99, 101, 32, 119, 105, 116, 104, 32, 91, 99,
       93, 32, 114, 101, 109, 111, 118, 97, 108, 32, 105, 110, 99, 108,
       117, 100, 101, 100>>}

MaxNoiseLen == 5
\* '[', ']', 'p', '/'
NoiseAlphabet == {91, 93, 112, 47}
\* 'Long texts ' followed by a run of marker characters
NoisyLines == {<<76, 111, 110, 103, 32, 116, 101, 120, 116, 115, 32>> \o t :
                  t \in SeqsUpTo(NoiseAlphabet, MaxNoiseLen)}

CallCleanLine == Call("_clean_line", _clean_line(text))

InitWiki == InitCalls(test_cases \cup NoisyLines, {"_clean_line"}, {{}})
NextWiki == CallCleanLine
SpecWiki == InitWiki /\ [][NextWiki]_vars

\* s holds '[]', '[p]' or '[c]', or a '/'-delimited run of [a-zA-Z~]
HasInlineMarker(s) ==
    \/ Contains(s, <<91, 93>>) \/ Contains(s, <<91, 112, 93>>)
    \/ Contains(s, <<91, 99, 93>>)
    \/ \E i, j \in 1..Len(s) :
          /\ i + 1 < j /\ s[i] = 47 /\ s[j] = 47
          /\ \A k \in (i + 1)..(j - 1) : s[k] \in (65..90) \cup (97..122) \cup {126}

\* C22: inline-noise removal: _clean_line returns either None or a string
\* of at least MIN_LINE_LENGTH characters that holds no '[]', '[p]', '[c]'
\* and no '/letters/' phonetic marker
C22_NoInlineNoiseLeft ==
    "_clean_line" \in DOMAIN ret =>
        \/ ret["_clean_line"].none
        \/ /\ Len(ret["_clean_line"].text) >= MIN_LINE_LENGTH
           /\ ~HasInlineMarker(ret["_clean_line"].text)

\* ---------------------------------------------------------------------
\* Part XIII: the lines a run of the chunk workers covers
\* ---------------------------------------------------------------------

RECURSIVE SumOver(_, _)
SumOver(f, S) ==
    IF S = {} THEN 0
    ELSE LET x == CHOOSE y \in S : TRUE IN f[x] + SumOver(f, S \ {x})

\* C23: no line is lost: when every chunk worker of master_cleanup_2 has
\* returned, each line of the input file has been transformed and written by
\* a worker, and the sum of lines_processed over the chunks is the number of
\* lines of the file, also for a line that starts exactly at a chunk boundary
C23_NoLineLost ==
    mainpc \in {"finally_ok", "done"} =>
        LET ap == AllProcessed
        IN  /\ \A o \in LineStarts(file) : \E k \in 1..Len(ap) : ap[k].off = o
            /\ SumOver(lines_processed, Idx) = Cardinality(LineStarts(file))

\* C24: _compute_chunks(file, N) for N >= 1 returns exactly N half-open
\* ranges [start_i, end_i) with start_0 = 0, end_i = start_(i+1),
\* start_i <= end_i and end_(N-1) = file_size: the ranges are contiguous, do
\* not overlap and cover every byte of the file, also when file_size < N or
\* file_size is not a multiple of N
C24_ChunksPartitionFile ==
    mainpc \notin {"start", "idle"} =>
        /\ Len(chunks) = num_workers
        /\ chunks[1].start = 0
        /\ \A k \in 1..(Len(chunks) - 1) : chunks[k].end = chunks[k + 1].start
        /\ \A k \in 1..Len(chunks) : chunks[k].start <= chunks[k].end
        /\ chunks[Len(chunks)].end = Len(file)
        /\ \A b \in 0..(Len(file) - 1) :
              Cardinality({k \in 1..Len(chunks) :
                              chunks[k].start <= b /\ b < chunks[k].end}) = 1

\* the chunks of a file with fewer bytes than chunks, not a multiple of their
\* number
C24_Witness ==
    /\ mainpc = "collect"
    /\ 0 < Len(file) /\ Len(file) < num_workers
    /\ Len(chunks) = num_workers

\* C25: in a chunk worker the position compared with `end` before each read
\* (f.buffer.tell()) is the offset of the first byte of the next line
\* f.readline() will return, so a worker that has returned has processed
\* every line that starts before `end`, from its boundary-corrected start on:
\* the read-ahead of the text layer makes it skip no line
C25_TellIsNextLineStart ==
    \A i \in Idx :
        /\ wpc[i] = "loop" => bufpos[i] = txtpos[i]
        /\ wpc[i] = "done" =>
              \A o \in LineStarts(file) :
                  (SeekStart(file, Chunk(i).start) <= o /\ o < Chunk(i).end)
                      => \E k \in 1..Len(processed[i]) : processed[i][k].off = o

\* ---------------------------------------------------------------------
\* Part XIV: the dictionary normalisers applied to one line
\* ---------------------------------------------------------------------

\* MalayalamWordNormalizer.normalize_word, m being self.mapping
normalize_word(m, raw_word) ==
    LET l_stripped     == lstrip(raw_word, _PUNCTUATION)
        leading_punct  == Slice(raw_word, 1, Len(raw_word) - Len(l_stripped))
        core_word      == rstrip(l_stripped, _PUNCTUATION)
        trailing_punct == Slice(l_stripped, Len(core_word) + 1, Len(l_stripped))
    IN  IF core_word \in DOMAIN m
        THEN leading_punct \o m[core_word] \o trailing_punct
        ELSE raw_word

\* MalayalamWordNormalizer.normalize_sentence
normalize_sentence(m, s) ==
    IF s = <<>> THEN <<>>
    ELSE LET words == split(s)
         IN  join([k \in 1..Len(words) |-> normalize_word(m, words[k])])

MaxLineTokensLen == 4
\* 'a' (a key of the mapping), 'c', ' ', '\t', ','
FrameAlphabet == {97, 99, SPACE, TAB, 44}
FrameLines == SeqsUpTo(FrameAlphabet, MaxLineTokensLen)

CallNormalizeChilluLine ==
    Call("_normalize_chillu_line", _normalize_chillu_line(LoadMapping(mappingFile), text))
CallNormalizeSentence ==
    Call("normalize_sentence", normalize_sentence(_load_mapping(mappingFile), text))

\* a line and a mapping file that loads, before either normaliser is called
InitFrame ==
    /\ text \in FrameLines
    /\ npc = "idle" /\ cpc = "idle"
    /\ normalized = <<>> /\ renormalized = <<>>
    /\ cleaned = <<>> /\ recleaned = <<>>
    /\ calls = {"_normalize_chillu_line", "normalize_sentence"}
    /\ ret = NoReturn /\ valid_words = {}
    /\ file = <<>>
    /\ mappingFile \in {mf \in MappingFiles : ~JsonLoadRaises(mf)}
    /\ num_workers = 1
    /\ output = NoFile /\ output0 = NoFile
    /\ chunks = <<>>
    /\ mainpc = "idle"
    /\ tempDir = FALSE
    /\ tempFile = [i \in Idx |-> NoFile]
    /\ ordered_results = <<>>
    /\ wpc = [i \in Idx |-> "idle"]
    /\ wmap = [i \in Idx |-> EmptyMap]
    /\ bufpos = [i \in Idx |-> 0]
    /\ txtpos = [i \in Idx |-> 0]
    /\ lines_processed = [i \in Idx |-> 0]
    /\ processed = [i \in Idx |-> <<>>]
    /\ outOfOrder = FALSE
    /\ initRaised = FALSE
    /\ InitMineIdle
    /\ InitStreamIdle
NextFrame == CallNormalizeChilluLine \/ CallNormalizeSentence
SpecFrame == InitFrame /\ [][NextFrame]_vars

\* the token without its leading and trailing punctuation
Core(w) == rstrip(lstrip(w, _PUNCTUATION), _PUNCTUATION)

\* out is the line s with the tokens whose core is a key of m rewritten and
\* nothing else changed
FrameOfLine(m, s, out) ==
    LET words == split(s)
        outs  == split(out)
    IN  /\ (\A k \in 1..Len(words) : Core(words[k]) \notin DOMAIN m) => out = s
        /\ Len(outs) = Len(words)
        /\ \A k \in 1..Len(words) :
              LET lead == LeadCount(words[k], _PUNCTUATION)
                  core == Core(words[k])
              IN  outs[k] = IF core \in DOMAIN m
                            THEN Slice(words[k], 1, lead) \o m[core]
                                 \o Slice(words[k], lead + Len(core) + 1, Len(words[k]))
                            ELSE words[k]

\* C26: frame of dictionary normalization: _normalize_chillu_line and
\* normalize_sentence return a line character for character unchanged
\* (leading and trailing whitespace, tabs and runs of spaces included) when
\* no token of the line has a punctuation-stripped core that is a key of the
\* mapping, whether the mapping is empty or not; when a token is replaced,
\* its leading and trailing punctuation and all other tokens are preserved
C26_LineFrame ==
    /\ "_normalize_chillu_line" \in DOMAIN ret =>
          FrameOfLine(mappingFile.json, text, ret["_normalize_chillu_line"])
    /\ "normalize_sentence" \in DOMAIN ret =>
          FrameOfLine(mappingFile.json, text, ret["normalize_sentence"])

\* ---------------------------------------------------------------------
\* Part XV: the four chillu tables side by side
\* ---------------------------------------------------------------------

\* chillu_map of data/chillu_normalization.normalize_malayalam_text, in the
\* order of the dict
text_chillu_map == << <<<<NNA, virama, zwj>>, <<CHILLU_NN>>>>,
                      <<<<NA,  virama, zwj>>, <<CHILLU_N>>>>,
                      <<<<RA,  virama, zwj>>, <<CHILLU_RR>>>>,
                      <<<<LA,  virama, zwj>>, <<CHILLU_L>>>>,
                      <<<<LLA, virama, zwj>>, <<CHILLU_LL>>>> >>

\* for old_seq, new_char in chillu_map.items(): text = text.replace(...)
RECURSIVE TextMapLoop(_, _)
TextMapLoop(s, k) ==
    IF k > Len(text_chillu_map) THEN s
    ELSE TextMapLoop(replace(s, text_chillu_map[k][1], text_chillu_map[k][2]), k + 1)

normalize_malayalam_text(s) == TextMapLoop(s, 1)

MaxResolveLen == 3
ResolveAlphabet == FiveBases \cup {virama, zwj}
ResolveTexts == SeqsUpTo(ResolveAlphabet, MaxResolveLen)

CallNormalizeMalayalamText ==
    Call("normalize_malayalam_text", normalize_malayalam_text(text))

InitResolve == InitCalls(ResolveTexts, {"rigorous_malayalam_normalization", "normalize_zwj",
                                        "normalize_malayalam_text", "pattern.sub"}, {{}})
NextResolve == CallRigorous \/ CallNormalizeZwj \/ CallNormalizeMalayalamText
               \/ CallPatternSub
SpecResolve == InitResolve /\ [][NextResolve]_vars

\* the atomic chillu of each of the five base consonants
ChilluOf == (NNA :> CHILLU_NN) @@ (NA :> CHILLU_N) @@ (RA :> CHILLU_RR)
            @@ (LA :> CHILLU_L) @@ (LLA :> CHILLU_LL)

\* C27: all chillu resolvers agree on the target scalar: for each of the five
\* base consonants c, c + virama + joiner is mapped to the same atomic chillu
\* by rigorous_malayalam_normalization, normalize_zwj and
\* normalize_malayalam_text, and c + virama by the substitution table of
\* find_chillu_pairs: NNA to U+0D7A, NA to U+0D7B, RA to U+0D7C, LA to U+0D7D,
\* LLA to U+0D7E
C27_ResolversAgree ==
    \A c \in FiveBases :
        /\ text = <<c, virama, zwj>> =>
              \A n \in DOMAIN ret \cap {"rigorous_malayalam_normalization", "normalize_zwj",
                                        "normalize_malayalam_text"} :
                  ret[n] = <<ChilluOf[c]>>
        /\ (text = <<c, virama>> /\ "pattern.sub" \in DOMAIN ret) =>
              ret["pattern.sub"] = <<ChilluOf[c]>>

\* ---------------------------------------------------------------------
\* Part XVI: the buffered write loop of master_cleanup_1.main
\* ---------------------------------------------------------------------
MIN_CLEANED_LENGTH == 20
DOC_SEPARATOR == <<NL, NL>>
\* WRITE_BUFFER is 5_000 in the source; scaled down so that the loop fills it
WRITE_BUFFER == 2
MaxDocs == 4

\* what clean_document returns: None, or a stripped text of at least
\* MIN_CLEANED_LENGTH characters (one of them with a paragraph break inside)
NoDoc == [none |-> TRUE, text |-> <<>>]
CleanedDocs == {[none |-> FALSE, text |-> Times(97, MIN_CLEANED_LENGTH)],
                [none |-> FALSE, text |-> Times(98, MIN_CLEANED_LENGTH - 1)
                                          \o DOC_SEPARATOR \o <<98>>]}
ResultLists == SeqsUpTo({NoDoc} \cup CleanedDocs, MaxDocs)

\* DOC_SEPARATOR.join(buf)
RECURSIVE JoinDocs(_)
JoinDocs(buf) ==
    IF buf = <<>> THEN <<>>
    ELSE IF Len(buf) = 1 THEN buf[1]
    ELSE buf[1] \o DOC_SEPARATOR \o JoinDocs(Tail(buf))

WriteBufferJoinOnly(buf) == JoinDocs(buf)

\* the argument of f_out.write: DOC_SEPARATOR.join(write_buf) + DOC_SEPARATOR
WriteBuffer(buf) == JoinDocs(buf) \o DOC_SEPARATOR

cleanFrame == <<chunkVars, normVars, funVars, mineVars, stream, prev_was_blank, stats>>

\* results = pool.imap(clean_document, _line_reader(INPUT_FILE)): the values
\* clean_document returned, in input order; f_out is open and empty
InitClean ==
    /\ streampc = "loop"
    /\ stream \in ResultLists
    /\ consumed = 0
    /\ write_buf = <<>> /\ f_out = <<>>
    /\ kept_docs = 0 /\ dropped_docs = 0
    /\ prev_was_blank = FALSE /\ stats = <<>> /\ appended = <<>>
    /\ text = <<>>
    /\ npc = "idle" /\ cpc = "idle"
    /\ normalized = <<>> /\ renormalized = <<>>
    /\ cleaned = <<>> /\ recleaned = <<>>
    /\ InitFunIdle
    /\ InitChunkIdle
    /\ InitMineIdle

\* one iteration of `for i, cleaned in enumerate(results, 1)`
CleanLoopStep ==
    /\ streampc = "loop"
    /\ consumed < Len(stream)
    /\ LET result == stream[consumed + 1]
           buf    == IF result.none THEN write_buf ELSE Append(write_buf, result.text)
       IN  /\ consumed' = consumed + 1
           /\ kept_docs' = IF result.none THEN kept_docs ELSE kept_docs + 1
           /\ dropped_docs' = IF result.none THEN dropped_docs + 1 ELSE dropped_docs
           /\ appended' = IF result.none THEN appended ELSE Append(appended, result.text)
           /\ IF Len(buf) >= WRITE_BUFFER
              THEN /\ f_out' = f_out \o WriteBuffer(buf)
                   /\ write_buf' = <<>>
              ELSE /\ f_out' = f_out
                   /\ write_buf' = buf
    /\ UNCHANGED <<streampc, cleanFrame>>

\* after the loop: `if write_buf: f_out.write(...)`, and f_out is closed
CleanFinalFlush ==
    /\ streampc = "loop"
    /\ consumed = Len(stream)
    /\ f_out' = IF write_buf # <<>> THEN f_out \o WriteBuffer(write_buf) ELSE f_out
    /\ streampc' = "done"
    /\ UNCHANGED <<consumed, write_buf, kept_docs, dropped_docs, appended, cleanFrame>>

NextClean == CleanLoopStep \/ CleanFinalFlush
SpecClean == InitClean /\ [][NextClean]_vars

\* the non-None results among the first n, in input order
RECURSIVE KeptOf(_, _)
KeptOf(rs, n) ==
    IF n = 0 THEN <<>>
    ELSE IF rs[n].none THEN KeptOf(rs, n - 1)
    ELSE Append(KeptOf(rs, n - 1), rs[n].text)

\* each of the documents followed by DOC_SEPARATOR, one after the other
RECURSIVE EachThenSeparator(_)
EachThenSeparator(ds) ==
    IF ds = <<>> THEN <<>>
    ELSE Head(ds) \o DOC_SEPARATOR \o EachThenSeparator(Tail(ds))

\* C28: ordered buffered write in master_cleanup_1.main: each document for
\* which clean_document returns non-None is written exactly once, in input
\* order, immediately followed by DOC_SEPARATOR, wherever the buffer flush
\* points fall (the final flush included); and at every step kept_docs +
\* dropped_docs equals the number of results consumed
C28_OrderedBufferedWrite ==
    streampc \in {"loop", "done"} =>
        LET docs    == KeptOf(stream, consumed)
            pending == IF streampc = "done" THEN 0 ELSE Len(write_buf)
        IN  /\ kept_docs + dropped_docs = consumed
            /\ kept_docs = Len(docs)
            /\ pending <= Len(docs)
            /\ f_out = EachThenSeparator(SubSeq(docs, 1, Len(docs) - pending))
            /\ streampc = "loop" =>
                  write_buf = SubSeq(docs, Len(docs) - pending + 1, Len(docs))
            /\ streampc = "done" => consumed = Len(stream)

\* the loop flushed a full buffer, a document was dropped, and the final
\* flush wrote a buffer that was not full
C28_Witness ==
    /\ streampc = "done"
    /\ kept_docs > WRITE_BUFFER
    /\ dropped_docs > 0
    /\ write_buf # <<>>
    /\ f_out # <<>>

\* ---------------------------------------------------------------------
\* Part XVII: the streaming loop of wikipedia_cleaning.main
\* ---------------------------------------------------------------------
MaxWikiLines == 3

\* the keys of stats
StatKeys == {"total_lines", "kept_lines", "removed_lines", "removed_category",
             "removed_table", "removed_short", "removed_empty", "removed_latex",
             "removed_brackets", "removed_wiki_image", "removed_file_path",
             "removed_phonetic", "removed_other", "cleaned_wiki_links",
             "cleaned_templates", "cleaned_bullets", "cleaned_refs", "cleaned_urls",
             "cleaned_brackets", "cleaned_phonetic_inline"}

\* stats[k] += 1 for every k of ks
Bump(st, ks) == [k \in DOMAIN st |-> IF k \in ks THEN st[k] + 1 ELSE st[k]]

\* pattern.search(s) of a substitution pattern
Found(Match(_, _), s) == \E i \in 1..Len(s) : Match(s, i).n > 0

\* lines of the input file, each with its newline: '', ' ', 'x', '{|',
\* '[[വർഗ്ഗം:', 'Long texts', 'Long texts [p]'
WikiLines ==
    {l \o <<NL>> : l \in {<<>>, <<SPACE>>, <<120>>, <<123, 124>>,
                          <<91, 91, 3381, 3452, 3351, 3405, 3351, 3330, 58>>,
                          <<76, 111, 110, 103, 32, 116, 101, 120, 116, 115>>,
                          <<76, 111, 110, 103, 32, 116, 101, 120, 116, 115, 32, 91, 112, 93>>}}
WikiFiles == SeqsUpTo(WikiLines, MaxWikiLines)

\* the stats key of the rule by which main removes the stripped line before
\* it calls _clean_line, "" when no rule does
RemovalReason(stripped) ==
    IF stripped = <<>> THEN "removed_empty"
    ELSE IF AnySearch(_RE_CATEGORY, stripped) THEN "removed_category"
    ELSE IF \/ AnySearch(_RE_TABLE_MARKER, stripped)
            \/ AnySearch(_RE_PIPE_ROW, stripped)
            \/ AnySearch(_RE_PIPE_START, stripped) THEN "removed_table"
    ELSE IF AnySearch(_RE_LATEX, stripped) THEN "removed_latex"
    ELSE IF AnySearch(_RE_EMPTY_BRACKETS, stripped) THEN "removed_brackets"
    ELSE IF AnySearch(_RE_WIKI_IMAGE, stripped) THEN "removed_wiki_image"
    ELSE IF AnySearch(_RE_FILE_PATH, stripped) THEN "removed_file_path"
    ELSE IF _RE_PHONETIC(stripped) THEN "removed_phonetic"
    ELSE ""

\* the cleaned_* keys main counts for a kept line
CleanedKeys(line, stripped, out) ==
    {k \in StatKeys :
        \/ k = "cleaned_wiki_links" /\ Contains(line, <<91, 91>>) /\ ~Contains(out, <<91, 91>>)
        \/ k = "cleaned_templates" /\ Contains(line, <<123, 123>>)
                                   /\ ~Contains(out, <<123, 123>>)
        \/ k = "cleaned_bullets" /\ _RE_BULLET(stripped) > 0 /\ _RE_BULLET(out) = 0
        \/ k = "cleaned_refs" /\ (\/ Contains(lower(line), <<60, 114, 101, 102>>)
                                  \/ Contains(lower(line), <<60, 47, 114, 101, 102>>))
                              /\ ~Contains(lower(out), <<60, 114, 101, 102>>)
        \/ k = "cleaned_urls" /\ Contains(line, <<104, 116, 116, 112>>)
                              /\ ~Contains(out, <<104, 116, 116, 112>>)
        \/ k = "cleaned_brackets" /\ Contains(line, <<91>>)
                                  /\ Found(_RE_INLINE_BRACKETS, line)
                                  /\ ~Found(_RE_INLINE_BRACKETS, out)
        \/ k = "cleaned_phonetic_inline" /\ Contains(line, <<47>>)
                                         /\ Found(_RE_INLINE_PHONETIC, line)
                                         /\ ~Found(_RE_INLINE_PHONETIC, out)}

wikiFrame == <<chunkVars, normVars, funVars, mineVars, stream, kept_docs, dropped_docs>>

\* main up to the for loop: stats are zero, both files are open
InitWikiMain ==
    /\ streampc = "loop"
    /\ stream \in WikiFiles
    /\ consumed = 0
    /\ write_buf = <<>> /\ f_out = <<>>
    /\ kept_docs = 0 /\ dropped_docs = 0
    /\ prev_was_blank = FALSE
    /\ stats = [k \in StatKeys |-> 0]
    /\ appended = <<>>
    /\ text = <<>>
    /\ npc = "idle" /\ cpc = "idle"
    /\ normalized = <<>> /\ renormalized = <<>>
    /\ cleaned = <<>> /\ recleaned = <<>>
    /\ InitFunIdle
    /\ InitChunkIdle
    /\ InitMineIdle

\* one iteration of `for i, raw_line in enumerate(f_in, 1)`
WikiLoopStep ==
    /\ streampc = "loop"
    /\ consumed < Len(stream)
    /\ consumed' = consumed + 1
    /\ LET line     == rstrip(stream[consumed + 1], {NL})
           stripped == strip(line)
           reason   == RemovalReason(stripped)
           out      == _clean_line(line)
       IN  IF stripped = <<>>
           THEN /\ stats' = Bump(stats, {"total_lines", "removed_empty", "removed_lines"})
                /\ write_buf' = IF prev_was_blank THEN write_buf ELSE Append(write_buf, <<>>)
                /\ appended' = IF prev_was_blank THEN appended ELSE Append(appended, <<>>)
                /\ prev_was_blank' = TRUE
                /\ f_out' = f_out
           ELSE IF reason # ""
           THEN /\ stats' = Bump(stats, {"total_lines", reason, "removed_lines"})
                /\ prev_was_blank' = FALSE
                /\ UNCHANGED <<write_buf, appended, f_out>>
           ELSE IF out.none
           THEN /\ stats' = Bump(stats, {"total_lines", "removed_lines",
                                         IF Len(stripped) < MIN_LINE_LENGTH
                                         THEN "removed_short" ELSE "removed_other"})
                /\ prev_was_blank' = FALSE
                /\ UNCHANGED <<write_buf, appended, f_out>>
           ELSE LET buf == Append(write_buf, out.text)
                IN  /\ stats' = Bump(stats, {"total_lines", "kept_lines"}
                                            \cup CleanedKeys(line, stripped, out.text))
                    /\ prev_was_blank' = FALSE
                    /\ appended' = Append(appended, out.text)
                    /\ IF Len(buf) >= WRITE_BUFFER
                       THEN /\ f_out' = f_out \o JoinLines(buf) \o <<NL>>
                            /\ write_buf' = <<>>
                       ELSE /\ f_out' = f_out
                            /\ write_buf' = buf
    /\ UNCHANGED <<streampc, wikiFrame>>

\* after the loop: `if write_buf: f_out.write('\n'.join(write_buf) + '\n')`
WikiFinalFlush ==
    /\ streampc = "loop"
    /\ consumed = Len(stream)
    /\ f_out' = IF write_buf # <<>> THEN f_out \o JoinLines(write_buf) \o <<NL>> ELSE f_out
    /\ streampc' = "done"
    /\ UNCHANGED <<consumed, write_buf, prev_was_blank, stats, appended, wikiFrame>>

NextWikiMain == WikiLoopStep \/ WikiFinalFlush
SpecWikiMain == InitWikiMain /\ [][NextWikiMain]_vars

\* C29: blank-line collapsing in the streaming loop of wikipedia_cleaning.main:
\* for every sequence of input lines (blank, kept, or removed by any rule) the
\* sequence of entries appended to the output buffer never contains two
\* consecutive blank entries: a run of blank lines, also when removed lines
\* lie between them, yields at most one blank line in the output
C29_NoTwoBlankEntries ==
    \A k \in 1..(Len(appended) - 1) : ~(appended[k] = <<>> /\ appended[k + 1] = <<>>)

\* ---------------------------------------------------------------------
\* Part XVIII: the keywords written in BOILERPLATE_KEYWORDS
\* ---------------------------------------------------------------------

\* the string literals between the brackets of BOILERPLATE_KEYWORDS, one by
\* one as they are written
WrittenKeywords ==
    {<<169>>, <<67, 111, 112, 121, 114, 105, 103, 104, 116>>, <<65, 108, 108,
    32, 114, 105, 103, 104, 116, 115, 32, 114, 101, 115, 101, 114, 118, 101,
    100>>, <<84, 101, 114, 109, 115, 32, 111, 102, 32, 85, 115, 101>>, <<80,
    114, 105, 118, 97, 99, 121, 32, 80, 111, 108, 105, 99, 121>>, <<68, 105,
    115, 99, 108, 97, 105, 109, 101, 114>>, <<99, 111, 111, 107, 105, 101, 32,
    112, 111, 108, 105, 99, 121>>, <<65, 108, 115, 111, 32, 82, 101, 97, 100>>,
    <<68, 111, 110, 39, 116, 32, 77, 105, 115, 115>>, <<68, 111, 110, 39, 116,
    32, 77, 105, 115, 115>>, <<82, 101, 97, 100, 32, 77, 111, 114, 101>>, <<67,
    108, 105, 99, 107, 32, 72, 101, 114, 101>>, <<82, 101, 97, 100, 32, 65, 108,
    115, 111>>, <<82, 69, 65, 68, 32, 65, 76, 83, 79>>, <<83, 117, 98, 115, 99,
    114, 105, 98, 101>>, <<83, 105, 103, 110, 32, 85, 112>>, <<76, 111, 103, 32,
    73, 110>>, <<83, 104, 97, 114, 101, 32, 116, 104, 105, 115>>, <<70, 111,
    108, 108, 111, 119, 32, 117, 115>>, <<74, 111, 105, 110, 32, 117, 115>>,
    <<83, 101, 101, 32, 97, 108, 115, 111>>, <<80, 114, 101, 118, 105, 111, 117,
    115, 58>>, <<78, 101, 120, 116, 58>>, <<76, 111, 97, 100, 32, 77, 111, 114,
    101>>, <<83, 104, 111, 119, 32, 77, 111, 114, 101>>, <<86, 105, 101, 119,
    32, 77, 111, 114, 101>>, <<76, 97, 115, 116, 32, 77, 111, 100, 105, 102,
    105, 101, 100>>, <<76, 97, 115, 116, 32, 85, 112, 100, 97, 116, 101, 100>>,
    <<69, 110, 103, 108, 105, 115, 104, 32, 69, 100, 105, 116, 105, 111, 110>>,
    <<80, 117, 98, 108, 105, 115, 104, 101, 100, 58>>, <<85, 112, 100, 97, 116,
    101, 100, 58>>, <<3374, 3377, 3393, 3368, 3390, 3359, 3451, 32, 3359, 3391,
    3381, 3391, 3375, 3393, 3359, 3398, 32, 3371, 3399, 3384, 3405, 3372, 3393,
    3349, 3405, 3349, 3405, 32, 3370, 3399, 3356, 3405, 32, 3385, 3390, 3349,
    3405, 3349, 3405, 32, 3354, 3398, 3375, 3405, 3364, 3393>>, <<3383, 3390,
    3356, 3451, 32, 3384, 3405, 3349, 3377, 3391, 3375, 3375, 3393, 3359, 3398,
    32, 3381, 3392, 3361, 3391, 3375, 3403, 32, 3349, 3390, 3363, 3390, 3330>>,
    <<3349, 3394, 3359, 3393, 3364, 3453, 32, 3381, 3390, 3375, 3391, 3349,
    3405, 3349, 3393, 3349>>, <<3364, 3393, 3359, 3452, 3368, 3405, 3368, 3405,
    32, 3381, 3390, 3375, 3391, 3349, 3405, 3349, 3393, 3349>>, <<3384, 3372,
    3405, 3384, 3405, 3349, 3405, 3376, 3400, 3372, 3405, 32, 3354, 3398, 3375,
    3405, 3375, 3393, 3349>>, <<3383, 3398, 3375, 3452, 32, 3354, 3398, 3375,
    3405, 3375, 3393, 3349>>, <<3349, 3374, 3368, 3405, 3377, 3405, 32, 3354,
    3398, 3375, 3405, 3375, 3393, 3349>>, <<3378, 3400, 3349, 3405, 3349, 3405,
    32, 3354, 3398, 3375, 3405, 3375, 3393, 3349>>, <<3384, 3398, 3452, 3354,
    3405, 3354, 3405>>, <<65, 100, 118, 101, 114, 116, 105, 115, 101, 109, 101,
    110, 116>>, <<83, 112, 111, 110, 115, 111, 114, 101, 100>>, <<65, 100, 32>>,
    <<75, 101, 121, 119, 111, 114, 100, 115, 58>>, <<84, 111, 112, 45, 72, 101,
    97, 100, 108, 105, 110, 101, 115>>, <<66, 101, 103, 105, 110, 32, 116, 121,
    112, 105, 110, 103, 32, 121, 111, 117, 114, 32, 115, 101, 97, 114, 99, 104,
    32, 97, 98, 111, 118, 101>>, <<89, 111, 117, 114, 32, 67, 111, 109, 109,
    101, 110, 116, 32, 65, 100, 100, 101, 100, 32, 83, 117, 99, 99, 101, 115,
    115, 102, 117, 108, 108, 121>>, <<99, 111, 110, 115, 101, 99, 116, 101, 116,
    117, 114, 32, 97, 100, 105, 112, 105, 115, 99, 105, 110, 103, 32, 101, 108,
    105, 116>>, <<83, 97, 118, 101, 32, 109, 121, 32, 110, 97, 109, 101, 44, 32,
    101, 109, 97, 105, 108, 44, 32, 97, 110, 100, 32, 119, 101, 98, 115, 105,
    116, 101>>, <<80, 114, 101, 115, 115, 32, 67, 84, 82, 76, 43, 77, 32, 116,
    111, 32, 116, 111, 103, 103, 108, 101>>, <<68, 111, 119, 110, 108, 111, 97,
    100, 32, 116, 104, 101, 32, 70, 97, 110, 112, 111, 114, 116, 32, 97, 112,
    112>>}

MaxPadLen == 1
\* 'a', ' '
PadAlphabet == {97, SPACE}
Pads == SeqsUpTo(PadAlphabet, MaxPadLen)
\* a written keyword with up to MaxPadLen scalars on each side
KeywordLines == {pre \o kw \o post : pre \in Pads, kw \in WrittenKeywords, post \in Pads}

InitKeyword == InitCalls(KeywordLines, {"classify_line"}, {{}})
NextKeyword == CallClassifyLine
SpecKeyword == InitKeyword /\ [][NextKeyword]_vars

\* C30: keyword rule coverage: classify_line returns 'remove_keyword' for
\* every non-blank line that contains any keyword written in
\* BOILERPLATE_KEYWORDS, in particular 'Advertisement' alone and the
\* Malayalam word for 'search' (U+0D38 U+0D46 U+0D7C U+0D1A U+0D4D U+0D1A
\* U+0D4D) alone
C30_WrittenKeywordsRemove ==
    ("classify_line" \in DOMAIN ret /\ strip(text) # <<>>
        /\ \E kw \in WrittenKeywords : Contains(text, kw))
    => ret["classify_line"] = "remove_keyword"

====
